---- MODULE Spec2Model ----
(***************************************************************************)
(* Model of the certificate verifier page (src/verifier.js, src/crypt.js): *)
(* the JSON canonicalizer, the PDF /CertPayload token parser, and the two  *)
(* asynchronous flows runHashFlow and runFilesFlow that drive them and     *)
(* write the outcome into the result element.                              *)
(*                                                                         *)
(* Text is a sequence of UTF-16 code units (naturals), bytes are naturals  *)
(* in 0..255.  A JavaScript value produced by JSON.parse is a record       *)
(*   [t, b, n, s, keys, items]                                             *)
(* with t in {"null","bool","num","str","arr","obj"}; for an object, keys  *)
(* and items are its own properties in the engine's own-property order    *)
(* (integer-index keys ascending, then the others in creation order).      *)
(***************************************************************************)
EXTENDS Integers, Sequences, FiniteSets, TLC

VARIABLES cj, pdf, flow, resultEl, hashInput, win

vars == <<cj, pdf, flow, resultEl, hashInput, win>>

---------------------------------------------------------------------------
(* Characters.                                                             *)

\* The printable ASCII characters from code unit 32 on, in order (the place
\* of the grave accent, 96, holds the empty string: it is not spelled here).
AsciiChars ==
    <<" ", "!", "\"", "#", "$", "%", "&", "'", "(", ")",
       "*", "+", ",", "-", ".", "/", "0", "1", "2", "3",
       "4", "5", "6", "7", "8", "9", ":", ";", "<", "=",
       ">", "?", "@", "A", "B", "C", "D", "E", "F", "G",
       "H", "I", "J", "K", "L", "M", "N", "O", "P", "Q",
       "R", "S", "T", "U", "V", "W", "X", "Y", "Z", "[",
       "\\", "]", "^", "_", "", "a", "b", "c", "d", "e",
       "f", "g", "h", "i", "j", "k", "l", "m", "n", "o",
       "p", "q", "r", "s", "t", "u", "v", "w", "x", "y",
       "z", "{", "|", "}", "~">>

\* The code unit of a one-character string.
Ord(c) ==
    LET Place(t) == CHOOSE k \in DOMAIN t : t[k] = c
    IN 31 + Place(AsciiChars)

\* The text spelled by a tuple of one-character strings.
Str(t) == [k \in 1..Len(t) |-> Ord(t[k])]

IsDigit(c) == c >= 48 /\ c <= 57

\* Lexicographic order of two sequences of code units: what the default
\* Array.prototype.sort comparison and String < compare.
RECURSIVE SeqLess(_, _)
SeqLess(a, b) ==
    IF b = <<>> THEN FALSE
    ELSE IF a = <<>> THEN TRUE
    ELSE IF Head(a) # Head(b) THEN Head(a) < Head(b)
    ELSE SeqLess(Tail(a), Tail(b))

\* The least element of a non-empty set of integers.
Least(S) == CHOOSE k \in S : \A m \in S : k <= m

\* The concatenation of the sequences parts[lo..hi].
RECURSIVE Flatten(_, _, _)
Flatten(parts, lo, hi) ==
    IF lo > hi THEN <<>>
    ELSE IF lo = hi THEN parts[lo]
    ELSE LET mid == (lo + hi) \div 2
         IN Flatten(parts, lo, mid) \o Flatten(parts, mid + 1, hi)

\* The concatenation of the images of the elements of t.
FlatMap(t, Image(_)) == Flatten([k \in 1..Len(t) |-> Image(t[k])], 1, Len(t))

---------------------------------------------------------------------------
(* JavaScript values.                                                      *)

VNull == [t |-> "null", b |-> FALSE, n |-> 0, s |-> <<>>, keys |-> <<>>, items |-> <<>>]
VBool(x) == [t |-> "bool", b |-> x, n |-> 0, s |-> <<>>, keys |-> <<>>, items |-> <<>>]
\* A number; b marks negative zero (n = 0).
VNum(x) == [t |-> "num", b |-> FALSE, n |-> x, s |-> <<>>, keys |-> <<>>, items |-> <<>>]
VNegZero == [t |-> "num", b |-> TRUE, n |-> 0, s |-> <<>>, keys |-> <<>>, items |-> <<>>]
VStr(x) == [t |-> "str", b |-> FALSE, n |-> 0, s |-> x, keys |-> <<>>, items |-> <<>>]
VArr(xs) == [t |-> "arr", b |-> FALSE, n |-> 0, s |-> <<>>, keys |-> <<>>, items |-> xs]
VObj(ks, xs) == [t |-> "obj", b |-> FALSE, n |-> 0, s |-> <<>>, keys |-> ks, items |-> xs]
EmptyObj == VObj(<<>>, <<>>)

\* typeof v === "object" && v !== null
IsObjectLike(v) == v.t \in {"arr", "obj"}

\* ToBoolean(v): what `!v` and `v ? :` test.
Truthy(v) ==
    CASE v.t = "null" -> FALSE
      [] v.t = "bool" -> v.b
      [] v.t = "num"  -> v.n # 0
      [] v.t = "str"  -> v.s # <<>>
      [] OTHER        -> TRUE

IndexOfKey(ks, k) ==
    IF \E j \in 1..Len(ks) : ks[j] = k
    THEN CHOOSE j \in 1..Len(ks) : ks[j] = k
    ELSE 0

\* An integer-index property key: a canonical numeric string ("0", or digits
\* with no leading zero).  Keys of the model stay far below 2^32 - 1.
IsArrayIndex(k) ==
    /\ k # <<>>
    /\ \A j \in 1..Len(k) : IsDigit(k[j])
    /\ (Len(k) > 1 => k[1] # 48)

\* Numeric order of two integer-index keys.
IndexLess(a, b) == Len(a) < Len(b) \/ (Len(a) = Len(b) /\ SeqLess(a, b))

InsertAt(seq, p, x) == SubSeq(seq, 1, p - 1) \o <<x>> \o SubSeq(seq, p, Len(seq))

\* CreateDataProperty on an ordinary object: an existing key keeps its place
\* and takes the new value; a new integer-index key goes among the index keys
\* in ascending numeric order, any other new key goes last.
DefineProp(o, k, v) ==
    LET before == {m \in 1..Len(o.keys) :
                     IsArrayIndex(o.keys[m]) /\ IndexLess(o.keys[m], k)}
        Put(j, p) ==
            IF j # 0 THEN [o EXCEPT !.items[j] = v]
            ELSE IF IsArrayIndex(k)
            THEN [o EXCEPT !.keys = InsertAt(o.keys, p, k), !.items = InsertAt(o.items, p, v)]
            ELSE [o EXCEPT !.keys = Append(o.keys, k), !.items = Append(o.items, v)]
    IN Put(IndexOfKey(o.keys, k), Cardinality(before) + 1)

ProtoKey == Str(<<"_", "_", "p", "r", "o", "t", "o", "_", "_">>)

\* The assignment o[k] = v on an object created by {} : the key "__proto__"
\* reaches the Object.prototype accessor, which sets the prototype (or does
\* nothing for a primitive v) and creates no own property.
SetProp(o, k, v) == IF k = ProtoKey THEN o ELSE DefineProp(o, k, v)

\* o[k] for an own property k.
GetProp(o, k) ==
    LET j == IndexOfKey(o.keys, k) IN IF j = 0 THEN VNull ELSE o.items[j]

HasTruthy(o, k) ==
    /\ o.t = "obj"
    /\ IndexOfKey(o.keys, k) # 0
    /\ Truthy(GetProp(o, k))

---------------------------------------------------------------------------
(* JSON.stringify(value) with no indent.                                   *)

RECURSIVE Digits(_)
Digits(n) == IF n < 10 THEN <<48 + n>> ELSE Digits(n \div 10) \o <<48 + (n % 10)>>

NumberText(v) ==
    IF v.n < 0 THEN <<45>> \o Digits(0 - v.n) ELSE Digits(v.n)

HexDigitLower(d) == IF d < 10 THEN 48 + d ELSE 87 + d

\* QuoteJSONString for one code unit.
QuoteUnit(c) ==
    CASE c = 34 -> <<92, 34>>
      [] c = 92 -> <<92, 92>>
      [] c = 8  -> <<92, 98>>
      [] c = 12 -> <<92, 102>>
      [] c = 10 -> <<92, 110>>
      [] c = 13 -> <<92, 114>>
      [] c = 9  -> <<92, 116>>
      [] c < 32 -> <<92, 117, 48, 48, HexDigitLower(c \div 16), HexDigitLower(c % 16)>>
      [] OTHER  -> <<c>>

Quote(s) == <<34>> \o FlatMap(s, QuoteUnit) \o <<34>>

RECURSIVE JSONStringify(_), StringifyItems(_), StringifyProps(_, _)
StringifyItems(xs) ==
    IF xs = <<>> THEN <<>>
    ELSE JSONStringify(Head(xs))
         \o (IF Len(xs) > 1 THEN <<44>> ELSE <<>>) \o StringifyItems(Tail(xs))
StringifyProps(ks, xs) ==
    IF ks = <<>> THEN <<>>
    ELSE Quote(Head(ks)) \o <<58>> \o JSONStringify(Head(xs))
         \o (IF Len(ks) > 1 THEN <<44>> ELSE <<>>) \o StringifyProps(Tail(ks), Tail(xs))
JSONStringify(v) ==
    CASE v.t = "null" -> Str(<<"n", "u", "l", "l">>)
      [] v.t = "bool" -> IF v.b THEN Str(<<"t", "r", "u", "e">>)
                                ELSE Str(<<"f", "a", "l", "s", "e">>)
      [] v.t = "num"  -> NumberText(v)
      [] v.t = "str"  -> Quote(v.s)
      [] v.t = "arr"  -> <<91>> \o StringifyItems(v.items) \o <<93>>
      [] v.t = "obj"  -> <<123>> \o StringifyProps(v.keys, v.items) \o <<125>>

---------------------------------------------------------------------------
(* JSON.parse(text).  The numbers of the model are integers: a fraction or *)
(* an exponent part is outside the modelled alphabet and is reported as a  *)
(* syntax error.  A result is [ok, v, i]: ok = FALSE is the SyntaxError.   *)

ParseFail == [ok |-> FALSE, v |-> VNull, i |-> 0]
ParseOk(x, j) == [ok |-> TRUE, v |-> x, i |-> j]

IsJsonWs(c) == c \in {32, 9, 10, 13}

RECURSIVE SkipWs(_, _)
SkipWs(text, i) ==
    IF i <= Len(text) /\ IsJsonWs(text[i]) THEN SkipWs(text, i + 1) ELSE i

HexVal(c) ==
    CASE c >= 48 /\ c <= 57  -> c - 48
      [] c >= 65 /\ c <= 70  -> c - 55
      [] c >= 97 /\ c <= 102 -> c - 87
      [] OTHER -> 0 - 1

\* The code unit of a one-character escape, or -1.
Unescape(c) ==
    CASE c = 34 -> 34 [] c = 92 -> 92 [] c = 47 -> 47 [] c = 98 -> 8
      [] c = 102 -> 12 [] c = 110 -> 10 [] c = 114 -> 13 [] c = 116 -> 9
      [] OTHER -> 0 - 1

\* Where the run of plain code units (no quote, backslash or control) that
\* starts at position i ends: the position after its last unit.
PlainEnd(text, i) ==
    Least({k \in i..(Len(text) + 1) :
             k > Len(text) \/ text[k] = 34 \/ text[k] = 92 \/ text[k] < 32})

\* The rest of a string literal, from position i (after the opening quote).
\* Plain code units are taken a run at a time.
RECURSIVE ParseStringRest(_, _, _)
ParseStringRest(text, i, acc) ==
    IF i > Len(text) THEN ParseFail
    ELSE LET c == text[i]
             Plain(e) == ParseStringRest(text, e, acc \o SubSeq(text, i, e - 1))
         IN
      IF c = 34 THEN ParseOk(VStr(acc), i + 1)
      ELSE IF c < 32 THEN ParseFail
      ELSE IF c # 92 THEN Plain(PlainEnd(text, i))
      ELSE IF i + 1 > Len(text) THEN ParseFail
      ELSE IF text[i + 1] = 117
      THEN IF i + 5 <= Len(text) /\ \A d \in 2..5 : HexVal(text[i + d]) >= 0
           THEN ParseStringRest(text, i + 6,
                    Append(acc, HexVal(text[i + 2]) * 4096 + HexVal(text[i + 3]) * 256
                                + HexVal(text[i + 4]) * 16 + HexVal(text[i + 5])))
           ELSE ParseFail
      ELSE IF Unescape(text[i + 1]) >= 0
      THEN ParseStringRest(text, i + 2, Append(acc, Unescape(text[i + 1])))
      ELSE ParseFail

RECURSIVE ParseDigits(_, _, _)
ParseDigits(text, i, acc) ==
    IF i <= Len(text) /\ IsDigit(text[i])
    THEN ParseDigits(text, i + 1, acc * 10 + (text[i] - 48))
    ELSE [n |-> acc, i |-> i]

\* A number token at position i: -? (0 | [1-9][0-9]*).
ParseNumber(text, i) ==
    LET neg == text[i] = 45
        j == IF neg THEN i + 1 ELSE i
        Token(d) ==
            IF d.i <= Len(text) /\ (IsDigit(text[d.i]) \/ text[d.i] \in {46, 69, 101})
            THEN ParseFail
            ELSE IF neg /\ d.n = 0 THEN ParseOk(VNegZero, d.i)
            ELSE ParseOk(VNum(IF neg THEN 0 - d.n ELSE d.n), d.i)
    IN IF j > Len(text) \/ ~IsDigit(text[j]) THEN ParseFail
       ELSE Token(IF text[j] = 48 THEN [n |-> 0, i |-> j + 1]
                  ELSE ParseDigits(text, j, 0))

\* Whether text holds the word w at position i.
HasWord(text, i, w) ==
    /\ i + Len(w) - 1 <= Len(text)
    /\ SubSeq(text, i, i + Len(w) - 1) = w

RECURSIVE ParseValue(_, _), ParseElements(_, _, _), ParseMembers(_, _, _)
\* After '[' or ',': the next element, then ',' or ']'.
ParseElements(text, i, xs) ==
    LET Close(ys, j) ==
            IF j > Len(text) THEN ParseFail
            ELSE IF text[j] = 44 THEN ParseElements(text, j + 1, ys)
            ELSE IF text[j] = 93 THEN ParseOk(VArr(ys), j + 1)
            ELSE ParseFail
        Element(r) ==
            IF ~r.ok THEN ParseFail ELSE Close(Append(xs, r.v), SkipWs(text, r.i))
    IN Element(ParseValue(text, i))
\* After '{' or ',': the next "key": value, then ',' or '}'.
ParseMembers(text, i, o) ==
    LET Close(o2, e) ==
            IF e > Len(text) THEN ParseFail
            ELSE IF text[e] = 44 THEN ParseMembers(text, e + 1, o2)
            ELSE IF text[e] = 125 THEN ParseOk(o2, e + 1)
            ELSE ParseFail
        Member(k, r) ==
            IF ~r.ok THEN ParseFail
            ELSE Close(DefineProp(o, k.v.s, r.v), SkipWs(text, r.i))
        Colon(k, c) ==
            IF c > Len(text) \/ text[c] # 58 THEN ParseFail
            ELSE Member(k, ParseValue(text, c + 1))
        Key(k) == IF ~k.ok THEN ParseFail ELSE Colon(k, SkipWs(text, k.i))
        j == SkipWs(text, i)
    IN IF j > Len(text) \/ text[j] # 34 THEN ParseFail
       ELSE Key(ParseStringRest(text, j + 1, <<>>))
ParseValue(text, i) ==
    LET j == SkipWs(text, i) IN
    IF j > Len(text) THEN ParseFail
    ELSE LET c == text[j] IN
      CASE c = 123 ->
             LET e == SkipWs(text, j + 1) IN
             IF e <= Len(text) /\ text[e] = 125 THEN ParseOk(EmptyObj, e + 1)
             ELSE ParseMembers(text, j + 1, EmptyObj)
        [] c = 91 ->
             LET e == SkipWs(text, j + 1) IN
             IF e <= Len(text) /\ text[e] = 93 THEN ParseOk(VArr(<<>>), e + 1)
             ELSE ParseElements(text, j + 1, <<>>)
        [] c = 34 -> ParseStringRest(text, j + 1, <<>>)
        [] c = 45 \/ IsDigit(c) -> ParseNumber(text, j)
        [] HasWord(text, j, Str(<<"t", "r", "u", "e">>)) -> ParseOk(VBool(TRUE), j + 4)
        [] HasWord(text, j, Str(<<"f", "a", "l", "s", "e">>)) -> ParseOk(VBool(FALSE), j + 5)
        [] HasWord(text, j, Str(<<"n", "u", "l", "l">>)) -> ParseOk(VNull, j + 4)
        [] OTHER -> ParseFail

\* JSON.parse: one value, then only white space.
JSONParse(text) ==
    LET Whole(r) == IF r.ok /\ SkipWs(text, r.i) > Len(text) THEN r ELSE ParseFail
    IN Whole(ParseValue(text, 1))

---------------------------------------------------------------------------
(* canonicalJSONString (src/verifier.js).                                  *)

\* A sort that leaves the keys as they stand; C4 is re-examined with it in
\* the place of SortKeys.
KeepKeys(ks) == ks

\* A sort that reverses the keys as they stand; C5 is re-examined with it in
\* the place of SortKeys.
ReverseKeys(ks) == [j \in 1..Len(ks) |-> ks[Len(ks) + 1 - j]]

\* Array.prototype.sort() with the default comparison, as insertion sort.
RECURSIVE SortKeys(_)
SortKeys(ks) ==
    IF ks = <<>> THEN <<>>
    ELSE LET rest == SortKeys(Tail(ks))
             p == Cardinality({m \in 1..Len(rest) : SeqLess(rest[m], Head(ks))}) + 1
         IN InsertAt(rest, p, Head(ks))

RECURSIVE canonicalJSONString(_), CanonItems(_), CanonProps(_, _, _)
\* item => object-like ? JSON.parse(canonicalJSONString(item)) : item
CanonChild(x) ==
    IF IsObjectLike(x) THEN JSONParse(canonicalJSONString(x)).v ELSE x
CanonItems(xs) ==
    IF xs = <<>> THEN <<>> ELSE <<CanonChild(Head(xs))>> \o CanonItems(Tail(xs))
\* The loop over sortedKeys, filling sortedObj.
CanonProps(obj, sortedKeys, sortedObj) ==
    IF sortedKeys = <<>> THEN sortedObj
    ELSE CanonProps(obj, Tail(sortedKeys),
             SetProp(sortedObj, Head(sortedKeys), CanonChild(GetProp(obj, Head(sortedKeys)))))
canonicalJSONString(obj) ==
    IF obj.t = "arr" THEN JSONStringify(VArr(CanonItems(obj.items)))
    ELSE IF obj.t = "obj"
    THEN JSONStringify(CanonProps(obj, SortKeys(obj.keys), EmptyObj))
    ELSE JSONStringify(obj)

---------------------------------------------------------------------------
(* TextDecoder, as decodePdfStringBytes and extractPayloadFromPdfFile use  *)
(* it.  A decoder result is [ok, units]; ok = FALSE is the TypeError of a  *)
(* fatal decoder.                                                          *)

\* The label "latin1" names the windows-1252 decoder: bytes 0x80..0x9F map
\* through its index, every other byte maps to the code point of its value.
Windows1252High ==
    <<8364, 129, 8218, 402, 8222, 8230, 8224, 8225, 710, 8240, 352, 8249, 338,
      141, 381, 143, 144, 8216, 8217, 8220, 8221, 8226, 8211, 8212, 732, 8482,
      353, 8250, 339, 157, 382, 376>>

Latin1Unit(b) == IF b >= 128 /\ b <= 159 THEN Windows1252High[b - 127] ELSE b

\* new TextDecoder("latin1").decode(u8)
Latin1Decode(u8) == [k \in 1..Len(u8) |-> Latin1Unit(u8[k])]

IsCont(b) == b >= 128 /\ b <= 191

\* The UTF-16 code units of a code point.
UnitsOf(cp) ==
    IF cp < 65536 THEN <<cp>>
    ELSE <<55296 + ((cp - 65536) \div 1024), 56320 + ((cp - 65536) % 1024)>>

\* Where the run of ASCII bytes that starts at byte k ends: the position
\* after its last byte.
AsciiEnd(u8, k) == Least({e \in k..(Len(u8) + 1) : e > Len(u8) \/ u8[e] >= 128})

\* The UTF-8 decoder from byte k (1-based) on.  An ill-formed sequence ends
\* a fatal decoder; otherwise the bytes read before the offending one become
\* one U+FFFD and decoding goes on at the offending byte.  ASCII bytes
\* decode to themselves and are taken a run at a time.
RECURSIVE Utf8DecodeFrom(_, _, _, _)
Utf8DecodeFrom(u8, k, fatal, acc) ==
    IF k > Len(u8) THEN [ok |-> TRUE, units |-> acc]
    ELSE LET b == u8[k]
             b1 == IF k + 1 <= Len(u8) THEN u8[k + 1] ELSE 0 - 1
             b2 == IF k + 2 <= Len(u8) THEN u8[k + 2] ELSE 0 - 1
             b3 == IF k + 3 <= Len(u8) THEN u8[k + 3] ELSE 0 - 1
             ok1 == /\ b1 >= (IF b = 224 THEN 160 ELSE IF b = 240 THEN 144 ELSE 128)
                    /\ b1 <= (IF b = 237 THEN 159 ELSE IF b = 244 THEN 143 ELSE 191)
             bad(g) == IF fatal THEN [ok |-> FALSE, units |-> <<>>]
                       ELSE Utf8DecodeFrom(u8, k + g, fatal, Append(acc, 65533))
             Ascii(e) == Utf8DecodeFrom(u8, e, fatal, acc \o SubSeq(u8, k, e - 1))
         IN
      IF b < 128 THEN Ascii(AsciiEnd(u8, k))
      ELSE IF b >= 194 /\ b <= 223
      THEN IF ok1
           THEN Utf8DecodeFrom(u8, k + 2, fatal, Append(acc, (b - 192) * 64 + (b1 - 128)))
           ELSE bad(1)
      ELSE IF b >= 224 /\ b <= 239
      THEN IF ~ok1 THEN bad(1)
           ELSE IF ~IsCont(b2) THEN bad(2)
           ELSE Utf8DecodeFrom(u8, k + 3, fatal,
                    Append(acc, (b - 224) * 4096 + (b1 - 128) * 64 + (b2 - 128)))
      ELSE IF b >= 240 /\ b <= 244
      THEN IF ~ok1 THEN bad(1)
           ELSE IF ~IsCont(b2) THEN bad(2)
           ELSE IF ~IsCont(b3) THEN bad(3)
           ELSE Utf8DecodeFrom(u8, k + 4, fatal,
                    acc \o UnitsOf((b - 240) * 262144 + (b1 - 128) * 4096
                                   + (b2 - 128) * 64 + (b3 - 128)))
      ELSE bad(1)

\* new TextDecoder("utf-8", { fatal }).decode(u8): a leading byte order
\* mark EF BB BF is dropped.
Utf8Decode(u8, fatal) ==
    IF Len(u8) >= 3 /\ u8[1] = 239 /\ u8[2] = 187 /\ u8[3] = 191
    THEN Utf8DecodeFrom(u8, 4, fatal, <<>>)
    ELSE Utf8DecodeFrom(u8, 1, fatal, <<>>)

IsHighSurrogate(u) == u >= 55296 /\ u <= 56319
IsLowSurrogate(u) == u >= 56320 /\ u <= 57343

\* The code unit at pair p (1-based) of u8, big or little endian.
Unit16(u8, p, be) ==
    IF be THEN u8[2 * p - 1] * 256 + u8[2 * p] ELSE u8[2 * p] * 256 + u8[2 * p - 1]

\* The UTF-16 decoder (not fatal) from pair p on: an unpaired surrogate and
\* a trailing odd byte each become U+FFFD.
RECURSIVE Utf16DecodeFrom(_, _, _, _)
Utf16DecodeFrom(u8, p, be, acc) ==
    IF 2 * p > Len(u8)
    THEN IF Len(u8) % 2 = 1 THEN Append(acc, 65533) ELSE acc
    ELSE LET u == Unit16(u8, p, be) IN
      IF IsHighSurrogate(u)
      THEN IF 2 * (p + 1) <= Len(u8) /\ IsLowSurrogate(Unit16(u8, p + 1, be))
           THEN Utf16DecodeFrom(u8, p + 2, be, acc \o <<u, Unit16(u8, p + 1, be)>>)
           ELSE IF 2 * (p + 1) > Len(u8) /\ Len(u8) % 2 = 1
           THEN Append(acc, 65533)
           ELSE Utf16DecodeFrom(u8, p + 1, be, Append(acc, 65533))
      ELSE IF IsLowSurrogate(u) THEN Utf16DecodeFrom(u8, p + 1, be, Append(acc, 65533))
      ELSE Utf16DecodeFrom(u8, p + 1, be, Append(acc, u))

\* new TextDecoder("utf-16be" | "utf-16le").decode(u8): a leading byte order
\* mark of the decoder's own endianness is dropped.
Utf16Decode(u8, be) ==
    IF Len(u8) >= 2 /\ Unit16(u8, 1, be) = 65279
    THEN Utf16DecodeFrom(u8, 2, be, <<>>)
    ELSE Utf16DecodeFrom(u8, 1, be, <<>>)

\* u8.subarray(2)
Subarray2(u8) == SubSeq(u8, 3, Len(u8))

decodePdfStringBytes(u8) ==
    IF Len(u8) >= 2 /\ u8[1] = 254 /\ u8[2] = 255 THEN Utf16Decode(Subarray2(u8), TRUE)
    ELSE IF Len(u8) >= 2 /\ u8[1] = 255 /\ u8[2] = 254 THEN Utf16Decode(Subarray2(u8), FALSE)
    ELSE LET Tried(r) == IF r.ok THEN r.units ELSE Latin1Decode(u8)
         IN Tried(Utf8Decode(u8, TRUE))

---------------------------------------------------------------------------
(* extractPayloadFromPdfFile (src/verifier.js).  The index i is the        *)
(* source's 0-based index into bytes.                                      *)

\* bytes[i]; -1 stands for undefined (a read past the end), which fails
\* every comparison the source makes.
At(bytes, i) == IF i >= 0 /\ i < Len(bytes) THEN bytes[i + 1] ELSE 0 - 1

Marker == Str(<<"/", "C", "e", "r", "t", "P", "a", "y", "l", "o", "a", "d">>)

\* text.indexOf("/CertPayload"): the 0-based index of the first occurrence,
\* or -1.  The single-byte decoding maps each byte to one code unit and maps
\* the marker's bytes to themselves, so the search runs over the bytes.
IndexOfMarker(bytes) ==
    LET Hits(m) == {k \in 0..(Len(bytes) - Len(m)) : SubSeq(bytes, k + 1, k + Len(m)) = m}
        First(hits) == IF hits = {} THEN 0 - 1 ELSE Least(hits)
    IN First(Hits(Marker))

isWhite(c) == c = 32 \/ c = 13 \/ c = 10 \/ c = 9 \/ c = 12

\* A skip that skips nothing; C18 is re-examined with it in the place of
\* SkipWhite.
SkipWhiteNone(bytes, i) == i

\* while (i < bytes.length && isWhite(bytes[i])) i++
RECURSIVE SkipWhite(_, _)
SkipWhite(bytes, i) ==
    IF i < Len(bytes) /\ isWhite(At(bytes, i)) THEN SkipWhite(bytes, i + 1) ELSE i

IsOctal(c) == c >= 48 /\ c <= 55

\* A table with no entries, every escaped byte standing for itself; C15 is
\* re-examined with it in the place of EscapeMap.
EscapeMapNone(esc) == esc

\* map[esc] ?? esc
EscapeMap(esc) ==
    CASE esc = 110 -> 10
      [] esc = 114 -> 13
      [] esc = 116 -> 9
      [] esc = 98  -> 8
      [] esc = 102 -> 12
      [] esc = 40  -> 40
      [] esc = 41  -> 41
      [] esc = 92  -> 92
      [] OTHER     -> esc

\* A closing branch that emits every ')' it meets; C9 is re-examined with it
\* in the place of CloseParen.
CloseParenEmit(st, b) ==
    [st EXCEPT !.depth = st.depth - 1, !.out = Append(st.out, b), !.i = st.i + 1]

\* The branch of the literal-string loop for b === 0x29:
\* depth--; if (depth > 0) out.push(b); i++
CloseParen(st, b) ==
    [st EXCEPT !.depth = st.depth - 1,
               !.out = IF st.depth - 1 > 0 THEN Append(st.out, b) ELSE st.out,
               !.i = st.i + 1]

\* One iteration of the literal-string loop, entered with i < bytes.length
\* and depth > 0.  st is [i, depth, out, brk]; brk records the break taken
\* when the buffer ends right after a backslash.
LitIter(bytes, st) ==
    LET b == At(bytes, st.i) IN
    IF b = 92
    THEN LET i1 == st.i + 1
             esc == At(bytes, i1)
         IN
      IF i1 >= Len(bytes) THEN [st EXCEPT !.i = i1, !.brk = TRUE]
      ELSE IF esc = 13 \/ esc = 10
      THEN LET i2 == IF esc = 13 /\ At(bytes, i1 + 1) = 10 THEN i1 + 1 ELSE i1
           IN [st EXCEPT !.i = i2 + 1]
      ELSE IF IsOctal(esc)
      THEN LET two == IsOctal(At(bytes, i1 + 1))
               i2 == IF two THEN i1 + 1 ELSE i1
               three == IsOctal(At(bytes, i2 + 1))
               i3 == IF three THEN i2 + 1 ELSE i2
               v1 == esc - 48
               v2 == IF two THEN v1 * 8 + (At(bytes, i2) - 48) ELSE v1
               v3 == IF three THEN v2 * 8 + (At(bytes, i3) - 48) ELSE v2
           IN [st EXCEPT !.out = Append(st.out, v3 % 256), !.i = i3 + 1]
      ELSE [st EXCEPT !.out = Append(st.out, EscapeMap(esc)), !.i = i1 + 1]
    ELSE IF b = 40
    THEN [st EXCEPT !.depth = st.depth + 1, !.out = Append(st.out, b), !.i = st.i + 1]
    ELSE IF b = 41 THEN CloseParen(st, b)
    ELSE [st EXCEPT !.out = Append(st.out, b), !.i = st.i + 1]

\* A loop condition without the test of depth; C20 is re-examined with it
\* in the place of LitCond.
LitCondAnyDepth(bytes, st) == st.i < Len(bytes) /\ ~st.brk

\* The loop condition of the literal-string loop.
LitCond(bytes, st) == st.i < Len(bytes) /\ st.depth > 0 /\ ~st.brk

\* The state after up to n iterations of the literal-string loop.
RECURSIVE LitRun(_, _, _)
LitRun(bytes, st, n) ==
    IF n = 0 THEN st
    ELSE IF n = 1 THEN (IF LitCond(bytes, st) THEN LitIter(bytes, st) ELSE st)
    ELSE LET Rest(half) == IF LitCond(bytes, half)
                           THEN LitRun(bytes, half, n - (n \div 2)) ELSE half
         IN Rest(LitRun(bytes, st, n \div 2))

\* The whole loop: every iteration advances i, so it ends within
\* bytes.length iterations.
LitLoop(bytes, st) == LitRun(bytes, st, Len(bytes))

\* A test of the depth that lets the break after a trailing backslash pass;
\* C8 is re-examined with it in the place of LitUnterminated.
LitUnterminatedNoBreak(st) == st.depth # 0 /\ ~st.brk

\* if (depth !== 0) throw ...
LitUnterminated(st) == st.depth # 0

\* One iteration of the hex-string loop, entered with i < bytes.length.
\* st is [i, hexChars, brk]; brk records the break at '>'.
HexIter(bytes, st) ==
    LET c == At(bytes, st.i) IN
    IF c = 62 THEN [st EXCEPT !.i = st.i + 1, !.brk = TRUE]
    ELSE IF ~isWhite(c) THEN [st EXCEPT !.hexChars = Append(st.hexChars, c), !.i = st.i + 1]
    ELSE [st EXCEPT !.i = st.i + 1]

HexCond(bytes, st) == st.i < Len(bytes) /\ ~st.brk

\* The state after up to n iterations of the hex-string loop.
RECURSIVE HexRun(_, _, _)
HexRun(bytes, st, n) ==
    IF n = 0 THEN st
    ELSE IF n = 1 THEN (IF HexCond(bytes, st) THEN HexIter(bytes, st) ELSE st)
    ELSE LET Rest(half) == IF HexCond(bytes, half)
                           THEN HexRun(bytes, half, n - (n \div 2)) ELSE half
         IN Rest(HexRun(bytes, st, n \div 2))

\* The whole loop: every iteration advances i, so it ends within
\* bytes.length iterations.
HexLoop(bytes, st) == HexRun(bytes, st, Len(bytes))

\* No padding; C10 is re-examined with it in the place of HexPad.
HexPadNone(hex) == hex

\* if (hex.length % 2 === 1) hex += "0"
HexPad(hex) == IF Len(hex) % 2 = 1 THEN Append(hex, 48) ELSE hex

\* parseInt(two, 16) for a string of two code units, none of them one of
\* the white-space bytes the loop drops, as [nan, n].  A sign and a "0x"
\* prefix are accepted, and parsing stops at the first other unit.
ParseInt16(c1, c2) ==
    LET NaN == [nan |-> TRUE, n |-> 0]
        Num(x) == [nan |-> FALSE, n |-> x]
    IN
    IF c1 = 43 \/ c1 = 45
    THEN IF HexVal(c2) >= 0
         THEN Num(IF c1 = 45 THEN 0 - HexVal(c2) ELSE HexVal(c2))
         ELSE NaN
    ELSE IF c1 = 48 /\ (c2 = 120 \/ c2 = 88) THEN NaN
    ELSE IF HexVal(c1) < 0 THEN NaN
    ELSE IF HexVal(c2) < 0 THEN Num(HexVal(c1))
    ELSE Num(HexVal(c1) * 16 + HexVal(c2))

\* The store out[j] = x into a Uint8Array: NaN becomes 0, any other number
\* is taken modulo 256.
ToUint8(x) == IF x.nan THEN 0 ELSE x.n % 256

\* for (j ...) out[j] = parseInt(hex.substr(j * 2, 2), 16)
HexBytes(hex) == [j \in 1..(Len(hex) \div 2) |-> ToUint8(ParseInt16(hex[2 * j - 1], hex[2 * j]))]

\* An Error, as [message, status]: status is the number a message embeds
\* (0 when it embeds none).
Err(m) == [message |-> m, status |-> 0]

\* The outcome of a call: a returned value, or a thrown Error.
Returned(x) == [ok |-> TRUE, v |-> x, e |-> Err("")]
Thrown(e) == [ok |-> FALSE, v |-> VNull, e |-> e]

KeyCert == Str(<<"c", "e", "r", "t">>)
KeySig == Str(<<"s", "i", "g">>)

\* !obj || !obj.cert || !obj.sig
BadShape(obj) == ~Truthy(obj) \/ ~HasTruthy(obj, KeyCert) \/ ~HasTruthy(obj, KeySig)

\* parsePayloadJson: the try block throws for a SyntaxError and for a
\* missing cert/sig alike, and the catch replaces either by one Error.
parsePayloadJson(jsonText) ==
    LET Try(r) == IF ~r.ok THEN Thrown(Err("SyntaxError"))
                  ELSE IF BadShape(r.v)
                  THEN Thrown(Err("Embedded /CertPayload missing cert/sig."))
                  ELSE Returned(r.v)
        Catch(tried) ==
            IF tried.ok THEN tried
            ELSE Thrown(Err("Embedded /CertPayload is not valid JSON after decoding."))
    IN Catch(Try(JSONParse(jsonText)))

LitStart(i) == [i |-> i + 1, depth |-> 1, out |-> <<>>, brk |-> FALSE]
HexStart(i) == [i |-> i + 1, hexChars |-> <<>>, brk |-> FALSE]

\* The statements after the literal-string loop.
LitFinish(st) ==
    IF LitUnterminated(st) THEN Thrown(Err("Unterminated /CertPayload string in PDF."))
    ELSE parsePayloadJson(decodePdfStringBytes(st.out))

\* The statements after the hex-string loop.
HexFinish(st) == parsePayloadJson(decodePdfStringBytes(HexBytes(HexPad(st.hexChars))))

\* The statements before the token: where the token starts and which parser
\* takes it, as [kind, i]; kind is "(" , "<" or the Error thrown.
Locate(bytes) ==
    LET Token(i) ==
            IF i >= Len(bytes) THEN [kind |-> "Malformed /CertPayload in PDF.", i |-> i]
            ELSE IF At(bytes, i) = 40 THEN [kind |-> "(", i |-> i]
            ELSE IF At(bytes, i) = 60 THEN [kind |-> "<", i |-> i]
            ELSE [kind |-> "Unsupported /CertPayload format (expected literal or hex string).",
                  i |-> i]
        Found(idx) ==
            IF idx = 0 - 1 THEN [kind |-> "No /CertPayload found in PDF metadata.", i |-> 0]
            ELSE Token(SkipWhite(bytes, idx + Len(Marker)))
    IN Found(IndexOfMarker(bytes))

\* extractPayloadFromPdfFile(file), for the bytes file.arrayBuffer() yields.
extractPayloadFromPdfFile(bytes) ==
    LET Parse(loc) ==
            CASE loc.kind = "(" -> LitFinish(LitLoop(bytes, LitStart(loc.i)))
              [] loc.kind = "<" -> HexFinish(HexLoop(bytes, HexStart(loc.i)))
              [] OTHER -> Thrown(Err(loc.kind))
    IN Parse(Locate(bytes))

---------------------------------------------------------------------------
(* src/crypt.js, and the platform calls it makes.                          *)

\* The value of a character of the base64 alphabet, or -1.
B64Val(c) ==
    CASE c >= 65 /\ c <= 90  -> c - 65
      [] c >= 97 /\ c <= 122 -> c - 71
      [] c >= 48 /\ c <= 57  -> c + 4
      [] c = 43 -> 62
      [] c = 47 -> 63
      [] OTHER -> 0 - 1

B64Char(d) ==
    CASE d < 26 -> 65 + d
      [] d < 52 -> 71 + d
      [] d < 62 -> d - 4
      [] d = 62 -> 43
      [] OTHER  -> 47

\* bytes[k] (1-based), or 0 past the end.
ByteOr0(bytes, k) == IF k <= Len(bytes) THEN bytes[k] ELSE 0

\* btoa of a binary string, as bytesToBase64 calls it: character j of the
\* output comes from the group of three bytes it belongs to.
bytesToBase64(bytes) ==
    [j \in 1..(4 * ((Len(bytes) + 2) \div 3)) |->
        LET g == (j - 1) \div 4
            b1 == ByteOr0(bytes, 3 * g + 1)
            b2 == ByteOr0(bytes, 3 * g + 2)
            b3 == ByteOr0(bytes, 3 * g + 3)
            q == (j - 1) % 4
        IN CASE q = 0 -> B64Char(b1 \div 4)
             [] q = 1 -> B64Char((b1 % 4) * 16 + b2 \div 16)
             [] q = 2 -> IF 3 * g + 2 > Len(bytes) THEN 61
                         ELSE B64Char((b2 % 16) * 4 + b3 \div 64)
             [] q = 3 -> IF 3 * g + 3 > Len(bytes) THEN 61 ELSE B64Char(b3 % 64)]

IsAsciiWs(c) == c \in {9, 10, 12, 13, 32}

DropAsciiWs(t) == LET keep(c) == IF IsAsciiWs(c) THEN <<>> ELSE <<c>> IN FlatMap(t, keep)

\* The bytes of the base64 digits d (their number is not 1 modulo 4).
B64Groups(d) ==
    [j \in 1..((Len(d) * 3) \div 4) |->
        LET g == (j - 1) \div 3
            v(k) == B64Val(d[4 * g + k])
            q == (j - 1) % 3
        IN CASE q = 0 -> v(1) * 4 + v(2) \div 16
             [] q = 1 -> (v(2) % 16) * 16 + v(3) \div 4
             [] q = 2 -> (v(3) % 4) * 64 + v(4)]

\* atob(text), the forgiving base64 decode, as [ok, bytes]: ok = FALSE is
\* the InvalidCharacterError.
atob(text) ==
    LET Cut(t, n) == IF n % 4 = 0 /\ n >= 1 /\ t[n] = 61
                     THEN (IF n >= 2 /\ t[n - 1] = 61 THEN 2 ELSE 1)
                     ELSE 0
        Unpadded(t) == SubSeq(t, 1, Len(t) - Cut(t, Len(t)))
        Decode(d) ==
            IF Len(d) % 4 = 1 \/ \E k \in 1..Len(d) : B64Val(d[k]) < 0
            THEN [ok |-> FALSE, bytes |-> <<>>]
            ELSE [ok |-> TRUE, bytes |-> B64Groups(d)]
    IN Decode(Unpadded(DropAsciiWs(text)))

\* new TextEncoder().encode(text): UTF-8, a surrogate pair as one code
\* point, an unpaired surrogate as U+FFFD.  The bytes of the unit at k.
Utf8EncodeAt(text, k) ==
    LET u == text[k] IN
    IF u < 128 THEN <<u>>
    ELSE IF u < 2048 THEN <<192 + u \div 64, 128 + (u % 64)>>
    ELSE IF IsHighSurrogate(u) /\ k < Len(text) /\ IsLowSurrogate(text[k + 1])
    THEN LET cp == 65536 + (u - 55296) * 1024 + (text[k + 1] - 56320) IN
         <<240 + cp \div 262144, 128 + ((cp \div 4096) % 64),
           128 + ((cp \div 64) % 64), 128 + (cp % 64)>>
    ELSE IF IsLowSurrogate(u) /\ k > 1 /\ IsHighSurrogate(text[k - 1]) THEN <<>>
    ELSE IF IsHighSurrogate(u) \/ IsLowSurrogate(u) THEN <<239, 191, 189>>
    ELSE <<224 + u \div 4096, 128 + ((u \div 64) % 64), 128 + (u % 64)>>

Utf8Encode(text) == Flatten([k \in 1..Len(text) |-> Utf8EncodeAt(text, k)], 1, Len(text))

\* ToString(v), which atob applies to its argument.
RECURSIVE ToStringJS(_), JoinItems(_)
JoinItems(xs) ==
    IF xs = <<>> THEN <<>>
    ELSE (IF Head(xs).t = "null" THEN <<>> ELSE ToStringJS(Head(xs)))
         \o (IF Len(xs) > 1 THEN <<44>> ELSE <<>>) \o JoinItems(Tail(xs))
ToStringJS(v) ==
    CASE v.t = "str" -> v.s
      [] v.t = "arr" -> JoinItems(v.items)
      [] v.t = "obj" -> Str(<<"[", "o", "b", "j", "e", "c", "t", " ",
                              "O", "b", "j", "e", "c", "t", "]">>)
      [] OTHER -> JSONStringify(v)

\* base64UrlToBytes: pad with '=' to a multiple of 4, replace '-' by '+'
\* and '_' by '/', then atob.
base64UrlToBytes(b64url) ==
    LET pad == [k \in 1..((4 - (Len(b64url) % 4)) % 4) |-> 61]
        padded == b64url \o pad
        b64 == [k \in 1..Len(padded) |->
                  IF padded[k] = 45 THEN 43 ELSE IF padded[k] = 95 THEN 47 ELSE padded[k]]
    IN atob(b64)

\* The sum of f[lo..hi].
RECURSIVE SumOf(_, _, _)
SumOf(f, lo, hi) ==
    IF lo > hi THEN 0
    ELSE IF lo = hi THEN f[lo]
    ELSE LET mid == (lo + hi) \div 2 IN SumOf(f, lo, mid) + SumOf(f, mid + 1, hi)

\* Adler-32 of data, as the pair <<a, b>> of its two 16-bit sums: a is 1
\* plus the sum of the bytes, b the sum of the values a takes after each
\* byte, both modulo 65521.
Adler(data) ==
    LET n == Len(data) IN
    << (1 + SumOf(data, 1, n)) % 65521,
       (n + SumOf([k \in 1..n |-> (n - k + 1) * data[k]], 1, n)) % 65521 >>

\* The blocks of a raw DEFLATE stream from byte p (1-based) on, as
\* [ok, data, p].  The model inflates stored blocks (BTYPE = 00, what a
\* compressor at level 0 emits); BTYPE = 11 is the reserved, invalid type;
\* the Huffman block types are outside the modelled inputs.
RECURSIVE InflateBlocks(_, _, _)
InflateBlocks(z, p, acc) ==
    LET bad == [ok |-> FALSE, data |-> <<>>, p |-> p] IN
    IF p + 4 > Len(z) THEN bad
    ELSE LET final == z[p] % 2 = 1
             btype == (z[p] \div 2) % 4
             len == z[p + 1] + z[p + 2] * 256
             nlen == z[p + 3] + z[p + 4] * 256
         IN IF btype # 0 \/ len + nlen # 65535 \/ p + 4 + len > Len(z) THEN bad
            ELSE IF final
            THEN [ok |-> TRUE, data |-> acc \o SubSeq(z, p + 5, p + 4 + len), p |-> p + 5 + len]
            ELSE InflateBlocks(z, p + 5 + len, acc \o SubSeq(z, p + 5, p + 4 + len))

\* new DecompressionStream("deflate"): the zlib container (header, DEFLATE
\* blocks, Adler-32), with nothing after it; [ok, data].
ZlibInflate(z) ==
    LET bad == [ok |-> FALSE, data |-> <<>>] IN
    IF Len(z) < 2 THEN bad
    ELSE IF z[1] % 16 # 8 \/ z[1] \div 16 > 7 \/ (z[1] * 256 + z[2]) % 31 # 0
            \/ (z[2] \div 32) % 2 = 1
    THEN bad
    ELSE LET Checked(r, ad) ==
                 IF z[r.p] * 256 + z[r.p + 1] = ad[2] /\ z[r.p + 2] * 256 + z[r.p + 3] = ad[1]
                 THEN [ok |-> TRUE, data |-> r.data]
                 ELSE bad
             Blocks(r) ==
                 IF ~r.ok \/ r.p + 3 # Len(z) THEN bad ELSE Checked(r, Adler(r.data))
         IN Blocks(InflateBlocks(z, 3, <<>>))

\* window.fflate.inflateSync: a raw DEFLATE stream; [ok, data].
RawInflate(z) ==
    LET Blocks(r) == [ok |-> r.ok, data |-> r.data] IN Blocks(InflateBlocks(z, 1, <<>>))

\* inflateFromBase64Url, in a window that has DecompressionStream
\* (hasDS), or else has or lacks fflate (hasFflate).
inflateFromBase64Url(b64url, hasDS, hasFflate) ==
    IF ~hasDS /\ ~hasFflate
    THEN Thrown(Err("No DecompressionStream; include fflate for fallback."))
    ELSE LET Parsed(r) == IF r.ok THEN Returned(r.v) ELSE Thrown(Err("SyntaxError"))
             Inflated(buf) ==
                 IF ~buf.ok THEN Thrown(Err("inflate error"))
                 ELSE Parsed(JSONParse(Utf8Decode(buf.data, FALSE).units))
             Decoded(bytes) ==
                 IF ~bytes.ok THEN Thrown(Err("InvalidCharacterError"))
                 ELSE Inflated(IF hasDS THEN ZlibInflate(bytes.bytes)
                               ELSE RawInflate(bytes.bytes))
         IN Decoded(base64UrlToBytes(b64url))

\* The one signature RSASSA-PKCS1-v1_5 (a deterministic scheme) accepts for
\* the message under the key pair keyId: an injective image of both.
SignatureOf(keyId, message) == <<0, 1, keyId>> \o message

\* crypto.subtle.verify({ name: "RSASSA-PKCS1-v1_5" }, publicKey, sigRaw, dataBytes)
SubtleVerify(publicKey, sigRaw, dataBytes) == sigRaw = SignatureOf(publicKey, dataBytes)

\* verifyPkcs1v15: the boolean returned, or the error atob throws.
verifyPkcs1v15(publicKey, dataBytes, signatureB64) ==
    LET Verify(sigRaw) ==
            IF ~sigRaw.ok THEN Thrown(Err("InvalidCharacterError"))
            ELSE Returned(VBool(SubtleVerify(publicKey, sigRaw.bytes, dataBytes)))
    IN Verify(atob(ToStringJS(signatureB64)))

\* verifyCertObject (src/verifier.js)
verifyCertObject(certObj, sigB64, publicKey) ==
    verifyPkcs1v15(publicKey, Utf8Encode(canonicalJSONString(certObj)), sigB64)

---------------------------------------------------------------------------
(* The page: show, loadPublicKey, parsePayloadFromHash,                    *)
(* resolvePayloadToObject, isPdfFile and the two flows (src/verifier.js).  *)

\* JSON.stringify(value, null, 2): ind is the current indentation.
Spaces(n) == [k \in 1..n |-> 32]
RECURSIVE StringifyPretty(_, _), PrettyItems(_, _), PrettyProps(_, _, _)
PrettyItems(xs, ind) ==
    IF xs = <<>> THEN <<>>
    ELSE Spaces(ind) \o StringifyPretty(Head(xs), ind)
         \o (IF Len(xs) > 1 THEN <<44, 10>> ELSE <<10>>) \o PrettyItems(Tail(xs), ind)
PrettyProps(ks, xs, ind) ==
    IF ks = <<>> THEN <<>>
    ELSE Spaces(ind) \o Quote(Head(ks)) \o <<58, 32>> \o StringifyPretty(Head(xs), ind)
         \o (IF Len(ks) > 1 THEN <<44, 10>> ELSE <<10>>)
         \o PrettyProps(Tail(ks), Tail(xs), ind)
StringifyPretty(v, ind) ==
    IF v.t = "arr" /\ v.items # <<>>
    THEN <<91, 10>> \o PrettyItems(v.items, ind + 2) \o Spaces(ind) \o <<93>>
    ELSE IF v.t = "obj" /\ v.keys # <<>>
    THEN <<123, 10>> \o PrettyProps(v.keys, v.items, ind + 2) \o Spaces(ind) \o <<125>>
    ELSE JSONStringify(v)

\* The details argument of show: a text, or the stack of an Error (which
\* the platform writes; it is kept as the Error it belongs to).
NoDetails == [kind |-> "text", text |-> <<>>, e |-> Err("")]
JsonDetails(v) == [kind |-> "text", text |-> StringifyPretty(v, 0), e |-> Err("")]
StackDetails(e) == [kind |-> "stack", text |-> <<>>, e |-> e]

\* The marker show writes for a true status and for a false status: the
\* source writes the check mark and "Verified" in both branches.
VerifiedMark == "Verified"
ShowText(status) == IF status THEN VerifiedMark ELSE VerifiedMark

\* show(status, message, details): the new content of the result element.
\* The message is not written.
show(status, message, details) ==
    [cls |-> IF status THEN "ok" ELSE "err",
     text |-> ShowText(status),
     details |-> details]

\* loadPublicKey: the key imported from ./public.pem, or the error of the
\* fetch or of importSpkiKey.  pem is the key pair (a number) the file
\* holds, or 0 for a file that is no PEM public key.
loadPublicKey(pem) ==
    IF pem = 0 THEN Thrown(Err("DataError")) ELSE Returned(VNum(pem))

IsTrimWs(c) == c \in {9, 10, 11, 12, 13, 32, 160}

\* String.prototype.trim
RECURSIVE TrimStart(_), TrimEnd(_)
TrimStart(t) == IF t # <<>> /\ IsTrimWs(Head(t)) THEN TrimStart(Tail(t)) ELSE t
TrimEnd(t) ==
    IF t # <<>> /\ IsTrimWs(t[Len(t)]) THEN TrimEnd(SubSeq(t, 1, Len(t) - 1)) ELSE t
Trim(t) == TrimStart(TrimEnd(t))

\* parsePayloadFromHash: raw is location.hash.slice(1), value is
\* input.value; the new input.value and the string returned.
parsePayloadFromHash(raw, value) ==
    LET v == IF raw # <<>> /\ value = <<>> THEN raw ELSE value
    IN [value |-> v, ret |-> Trim(v)]

StartsWith(t, prefix) == Len(t) >= Len(prefix) /\ SubSeq(t, 1, Len(prefix)) = prefix

\* payload.startsWith("http://") || payload.startsWith("https://")
IsUrl(payload) ==
    \/ StartsWith(payload, Str(<<"h", "t", "t", "p", ":", "/", "/">>))
    \/ StartsWith(payload, Str(<<"h", "t", "t", "p", "s", ":", "/", "/">>))

\* A looser r.ok, one that would let redirections through; C7 is re-examined
\* with it in the place of ResponseOk.
ResponseOkBelow400(status) == status >= 200 /\ status < 400

\* r.ok
ResponseOk(status) == status >= 200 /\ status <= 299

\* new Error(`Fetch failed: ${r.status}`)
FetchFailed(status) == [message |-> "Fetch failed: ", status |-> status]

\* The try/catch around JSON.parse(rawText) in resolvePayloadToObject.
ParseFetched(rawText) ==
    LET Try(r) == IF r.ok THEN Returned(r.v)
                  ELSE Thrown(Err("Fetched content is not valid JSON."))
    IN Try(JSONParse(rawText))

LowerAscii(c) == IF c >= 65 /\ c <= 90 THEN c + 32 ELSE c

\* /\.pdf$/i.test(name)
EndsInPdf(name) ==
    /\ Len(name) >= 4
    /\ [k \in 1..4 |-> LowerAscii(name[Len(name) - 4 + k])] = Str(<<".", "p", "d", "f">>)

\* An isPdfFile without the name test; C6 is re-examined with it in the
\* place of isPdfFile.
isPdfFileByType(f) == f.present /\ f.type = "application/pdf"

\* isPdfFile(f): f is [present, type, name, bytes]; f.name || "" is the name.
isPdfFile(f) ==
    IF ~f.present THEN FALSE
    ELSE IF f.type = "application/pdf" THEN TRUE
    ELSE EndsInPdf(f.name)

---------------------------------------------------------------------------
(* The flows as processes.  flow[f] is one invocation of runHashFlow or     *)
(* runFilesFlow: its position (pc, the await it is suspended at), its       *)
(* locals, the promise it awaits (ret, settled when the step that resumes   *)
(* it runs), and a trace of what it did: shown, the arguments of its last   *)
(* show call, shows, the number of its show calls, and calls, the stages it *)
(* has invoked.                                                             *)
(* win is the window's environment: pem (the key pair of ./public.pem, 0    *)
(* when the file is no key), hash (location.hash.slice(1)), file            *)
(* (jsonFile.files[0]), resp (what the server answers to the fetch of a     *)
(* payload URL) and hasDS / hasFflate (which inflate the window offers).    *)

IdleFlow ==
    [kind |-> "none", pc |-> "idle", publicKey |-> 0, payloadStr |-> <<>>,
     obj |-> VNull, ret |-> Returned(VNull),
     shown |-> [status |-> FALSE, message |-> "", code |-> 0],
     shows |-> 0, calls |-> {}]

\* A show call by flow f: the result element is overwritten.
Show(f, fl, status, message, details) ==
    /\ resultEl' = show(status, message.message, details)
    /\ flow' = [flow EXCEPT ![f] =
                  [fl EXCEPT !.shown = [status |-> status, message |-> message.message,
                                        code |-> message.status],
                             !.shows = fl.shows + 1]]

\* A flow without its catch clause: the rejection leaves the flow and
\* nothing is shown; C19 is re-examined with it in the place of Catch.
Uncaught(f, fl, e) ==
    /\ flow' = [flow EXCEPT ![f] = [fl EXCEPT !.pc = "rejected"]]
    /\ UNCHANGED resultEl

\* catch (e) { show(false, e.message, e.stack || "") } and the flow's end.
Catch(f, fl, e) == Show(f, [fl EXCEPT !.pc = "done"], FALSE, e, StackDetails(e))

\* The final show of a flow that returns after it.
Finish(f, fl, status, text, details) ==
    Show(f, [fl EXCEPT !.pc = "done"], status, Err(text), details)

\* verifyCertObject is called and its promise awaited; an error thrown on
\* the way (by atob) rejects that promise.
CallVerify(f, fl, obj) ==
    /\ flow' = [flow EXCEPT ![f] =
                  [fl EXCEPT !.pc = "awaitVerify", !.obj = obj,
                             !.ret = verifyCertObject(GetProp(obj, KeyCert),
                                                      GetProp(obj, KeySig), fl.publicKey),
                             !.calls = fl.calls \cup {"canonicalJSONString", "verifyPkcs1v15"}]]
    /\ UNCHANGED resultEl

\* runHashFlow from `const obj = await resolvePayloadToObject(...)` on, for
\* a payload that resolved to obj.
HashResolved(f, fl, obj) ==
    IF BadShape(obj)
    THEN Finish(f, [fl EXCEPT !.obj = obj], FALSE, "Invalid payload format.", JsonDetails(obj))
    ELSE CallVerify(f, fl, obj)

\* runHashFlow is called: show(true, "Loading...", ""), then the await of
\* loadPublicKey().
StartHash(f) ==
    /\ flow[f].pc \in {"idle", "done"}
    /\ Show(f, [IdleFlow EXCEPT !.kind = "hash", !.pc = "awaitKey"], TRUE,
            Err("Loading..."), NoDetails)
    /\ UNCHANGED <<hashInput, win, pdf, cj>>

\* runFilesFlow is called.
StartFiles(f) ==
    /\ flow[f].pc \in {"idle", "done"}
    /\ Show(f, [IdleFlow EXCEPT !.kind = "files", !.pc = "awaitKey"], TRUE,
            Err("Verifying uploaded PDF..."), NoDetails)
    /\ UNCHANGED <<hashInput, win, pdf, cj>>

\* loadPublicKey() settles in runHashFlow; parsePayloadFromHash() is called.
HashKeyLoaded(f) ==
    /\ flow[f].pc = "awaitKey" /\ flow[f].kind = "hash"
    /\ LET k == loadPublicKey(win.pem)
           h == parsePayloadFromHash(win.hash, hashInput)
       IN IF ~k.ok THEN Catch(f, flow[f], k.e) /\ UNCHANGED hashInput
          ELSE /\ hashInput' = h.value
               /\ flow' = [flow EXCEPT ![f].pc = "awaitPayloadStr",
                                       ![f].publicKey = k.v.n,
                                       ![f].payloadStr = h.ret]
               /\ UNCHANGED resultEl
    /\ UNCHANGED <<win, pdf, cj>>

\* parsePayloadFromHash() settles; resolvePayloadToObject(payloadStr) is
\* called and runs to its first await.
HashPayloadStr(f) ==
    /\ flow[f].pc = "awaitPayloadStr"
    /\ LET fl == flow[f] IN
       IF fl.payloadStr = <<>>
       THEN Finish(f, fl, FALSE, "No hash fragment found. Paste a payload or scan QR.",
                   NoDetails)
       ELSE /\ flow' = [flow EXCEPT ![f] =
                  IF IsUrl(fl.payloadStr)
                  THEN [fl EXCEPT !.pc = "awaitFetch", !.calls = fl.calls \cup {"fetch"}]
                  ELSE [fl EXCEPT !.pc = "awaitInflate",
                                  !.ret = inflateFromBase64Url(fl.payloadStr,
                                                               win.hasDS, win.hasFflate),
                                  !.calls = fl.calls \cup {"inflateFromBase64Url"}]]
            /\ UNCHANGED resultEl
    /\ UNCHANGED <<hashInput, win, pdf, cj>>

\* fetch(payload) settles: a network failure, a status that is not ok, or
\* a response whose text is awaited next.
HashFetched(f) ==
    /\ flow[f].pc = "awaitFetch"
    /\ LET fl == flow[f] IN
       IF ~win.resp.net THEN Catch(f, fl, Err("Failed to fetch"))
       ELSE IF ~ResponseOk(win.resp.status) THEN Catch(f, fl, FetchFailed(win.resp.status))
       ELSE flow' = [flow EXCEPT ![f].pc = "awaitText"] /\ UNCHANGED resultEl
    /\ UNCHANGED <<hashInput, win, pdf, cj>>

\* r.text() settles: the text is parsed and the flow goes on with the object.
HashText(f) ==
    /\ flow[f].pc = "awaitText"
    /\ LET fl == [flow[f] EXCEPT !.calls = flow[f].calls \cup {"JSON.parse"}]
           Resolved(parsed) == IF ~parsed.ok THEN Catch(f, fl, parsed.e)
                               ELSE HashResolved(f, fl, parsed.v)
       IN Resolved(ParseFetched(win.resp.body))
    /\ UNCHANGED <<hashInput, win, pdf, cj>>

\* inflateFromBase64Url(payload) settles.
HashInflated(f) ==
    /\ flow[f].pc = "awaitInflate"
    /\ LET fl == flow[f] IN
       IF ~fl.ret.ok THEN Catch(f, fl, fl.ret.e)
       ELSE HashResolved(f, fl, fl.ret.v)
    /\ UNCHANGED <<hashInput, win, pdf, cj>>

\* loadPublicKey() settles in runFilesFlow: the file is looked at, and
\* extractPayloadFromPdfFile(f) is called and awaits file.arrayBuffer().
FilesKeyLoaded(f) ==
    /\ flow[f].pc = "awaitKey" /\ flow[f].kind = "files"
    /\ LET k == loadPublicKey(win.pem)
           fl == flow[f]
       IN IF ~k.ok THEN Catch(f, fl, k.e)
          ELSE IF ~win.file.present
          THEN Finish(f, [fl EXCEPT !.publicKey = k.v.n], FALSE,
                      "Please upload a PDF file first.", NoDetails)
          ELSE IF ~isPdfFile(win.file)
          THEN Finish(f, [fl EXCEPT !.publicKey = k.v.n], FALSE,
                      "Only PDF files are supported for upload.", NoDetails)
          ELSE /\ flow' = [flow EXCEPT ![f].pc = "awaitFile", ![f].publicKey = k.v.n,
                                       ![f].calls = fl.calls \cup {"extractPayloadFromPdfFile"}]
               /\ UNCHANGED resultEl
    /\ UNCHANGED <<hashInput, win, pdf, cj>>

\* file.arrayBuffer() settles: the payload is extracted and verified.
FilesRead(f) ==
    /\ flow[f].pc = "awaitFile"
    /\ LET fl == flow[f]
           Extracted(r) == IF ~r.ok THEN Catch(f, fl, r.e) ELSE CallVerify(f, fl, r.v)
       IN Extracted(extractPayloadFromPdfFile(win.file.bytes))
    /\ UNCHANGED <<hashInput, win, pdf, cj>>

\* verifyCertObject(...) settles, in either flow.
Verified(f) ==
    /\ flow[f].pc = "awaitVerify"
    /\ LET fl == flow[f] IN
       IF ~fl.ret.ok THEN Catch(f, fl, fl.ret.e)
       ELSE Finish(f, fl, fl.ret.v.b,
                   IF fl.ret.v.b THEN "Signature is valid."
                                 ELSE "Signature verification failed.",
                   JsonDetails(GetProp(fl.obj, KeyCert)))
    /\ UNCHANGED <<hashInput, win, pdf, cj>>

FlowStep(f) ==
    \/ StartHash(f)
    \/ StartFiles(f)
    \/ HashKeyLoaded(f)
    \/ HashPayloadStr(f)
    \/ HashFetched(f)
    \/ HashText(f)
    \/ HashInflated(f)
    \/ FilesKeyLoaded(f)
    \/ FilesRead(f)
    \/ Verified(f)

---------------------------------------------------------------------------
(* The inputs of the flows: what a signer publishes and what the window    *)
(* holds.  The signer canonicalizes with canonicalJSONString and signs     *)
(* with key pair 1.                                                        *)

Obj1(k, v) == VObj(<<k>>, <<v>>)
Obj2(k1, v1, k2, v2) == VObj(<<k1, k2>>, <<v1, v2>>)

KeyA == Str(<<"a">>)
KeyB == Str(<<"b">>)

\* The signer's certificate, as the keys stand in its file.
SignedCert == Obj2(KeyB, VNum(2), KeyA, VNum(1))

\* The signature (base64) of key pair k over the canonical form of cert.
SigB64(k, cert) ==
    bytesToBase64(SignatureOf(k, Utf8Encode(canonicalJSONString(
        JSONParse(JSONStringify(cert)).v))))

GoodSig == VStr(SigB64(1, SignedCert))

\* The payload the signer publishes, given its signature.
GoodDoc(sig) == Obj2(KeyCert, SignedCert, KeySig, sig)

\* The documents a payload reference may resolve to, given the signer's
\* signature sig and certificate cert, under the keys kc = "cert", ks = "sig".
DocsWith(sig, cert, kc, ks) ==
    { GoodDoc(sig),
      Obj2(ks, sig, kc, Obj2(KeyA, VNum(1), KeyB, VNum(2))),
      Obj2(kc, Obj2(KeyB, VNum(3), KeyA, VNum(1)), ks, sig),
      Obj2(kc, cert, ks, VStr(Str(<<"!", "!">>))),
      Obj2(kc, cert, ks, VNum(5)),
      Obj2(kc, cert, ks, VStr(<<>>)),
      Obj2(kc, VNull, ks, sig),
      Obj2(kc, VNum(0), ks, sig),
      Obj2(kc, EmptyObj, ks, sig),
      Obj1(kc, cert),
      Obj1(ks, sig),
      EmptyObj, VNull, VNum(5), VBool(TRUE), VStr(Str(<<"a", "b", "c">>)),
      VArr(<<VNum(1)>>) }

PayloadDocs == DocsWith(GoodSig, SignedCert, KeyCert, KeySig)

\* The texts a payload reference may carry: the documents, and a text that
\* is no JSON.
TextsOf(docs) == {JSONStringify(d) : d \in docs} \cup {Str(<<"{", "c", "e", "r", "t">>)}

PayloadTexts == TextsOf(PayloadDocs)

GoodText == JSONStringify(GoodDoc(GoodSig))

\* The zlib container of data, in one stored block.
ZlibStore(data) ==
    LET ad == Adler(data) IN
    <<120, 1, 1, Len(data) % 256, Len(data) \div 256,
      255 - (Len(data) % 256), 255 - (Len(data) \div 256)>>
    \o data
    \o <<ad[2] \div 256, ad[2] % 256, ad[1] \div 256, ad[1] % 256>>

\* base64url without padding.
ToUrlSafe(t) ==
    LET safe(c) == IF c = 61 THEN <<>>
                   ELSE IF c = 43 THEN <<45>> ELSE IF c = 47 THEN <<95>> ELSE <<c>>
    IN FlatMap(t, safe)

\* The inline token of a text.
Token(text) == ToUrlSafe(bytesToBase64(ZlibStore(Utf8Encode(text))))

\* The bytes of a text as a PDF literal string.
PdfEscape(bytes) ==
    LET esc(c) == IF c \in {40, 41, 92} THEN <<92, c>> ELSE <<c>> IN FlatMap(bytes, esc)

PdfHead == Str(<<"%", "P", "D", "F", " ">>)

\* A PDF that carries text as the literal string after /CertPayload.
PdfWith(text) ==
    PdfHead \o Marker \o <<32, 40>> \o PdfEscape(Utf8Encode(text)) \o <<41, 10>>

NoFile == [present |-> FALSE, type |-> "", name |-> <<>>, bytes |-> <<>>]
File(type, name, bytes) == [present |-> TRUE, type |-> type, name |-> name, bytes |-> bytes]

NamePdf == Str(<<"c", ".", "p", "d", "f">>)
NamePdfUpper == Str(<<"C", ".", "P", "D", "F">>)
NameJson == Str(<<"c", ".", "j", "s", "o", "n">>)
NamePdfTxt == Str(<<"c", ".", "p", "d", "f", ".", "t", "x", "t">>)

Url == Str(<<"h", "t", "t", "p", "s", ":", "/", "/", "h", "/", "c">>)
UrlPlain == Str(<<"h", "t", "t", "p", ":", "/", "/", "h", "/", "c">>)

Resp(net, status, body) == [net |-> net, status |-> status, body |-> body]
NoResp == Resp(FALSE, 0, <<>>)

\* A window holding a hash (and no file), or a file (and no hash).
HashWin(hash, resp) == [hash |-> hash, resp |-> resp, file |-> NoFile]
FileWin(file) == [hash |-> <<>>, resp |-> NoResp, file |-> file]

\* The windows that hold a hash, for the payload texts and the signer's text good.
HashWins(texts, good) ==
    {HashWin(u, Resp(TRUE, 200, t)) : u \in {Url, UrlPlain}, t \in texts}
    \cup {HashWin(Url, Resp(TRUE, st, good)) : st \in {199, 204, 299, 300, 404, 500}}
    \cup {HashWin(Url, NoResp)}
    \cup {HashWin(Token(t), NoResp) : t \in texts}
    \cup {HashWin(<<32>> \o Token(good) \o <<10>>, NoResp),
          HashWin(Str(<<"!", "!", "!">>), NoResp),
          HashWin(bytesToBase64(Utf8Encode(good)), NoResp),
          HashWin(<<>>, NoResp),
          HashWin(<<32, 32>>, NoResp)}

\* The windows that hold a file (or none), the PDF files starting with head.
FileWins(texts, good, head) ==
    {FileWin(NoFile)}
    \cup {FileWin(File("application/pdf", NamePdf, PdfWith(t))) : t \in texts}
    \cup {FileWin(File(ty, nm, PdfWith(good))) :
            ty \in {"application/pdf", "application/json", ""},
            nm \in {NamePdf, NamePdfUpper, NameJson, NamePdfTxt, <<>>}}
    \cup {FileWin(File("application/json", NameJson, Utf8Encode(good))),
          FileWin(File("application/pdf", NamePdf, PdfHead)),
          FileWin(File("application/pdf", NamePdf, head)),
          FileWin(File("application/pdf", NamePdf, head \o <<32, 47, 88>>)),
          FileWin(File("application/pdf", NamePdf, head \o <<40>> \o Utf8Encode(good))),
          FileWin(File("application/pdf", NamePdf,
                       head \o <<60>> \o Str(<<"7", "B", "7", "D", ">">>)))}

WinsOf(texts, good) ==
    {[hash |-> w.hash, resp |-> w.resp, file |-> w.file,
      pem |-> k, hasDS |-> ds, hasFflate |-> ff] :
        w \in HashWins(texts, good) \cup FileWins(texts, good, PdfHead \o Marker),
        k \in {0, 1, 2}, ds \in BOOLEAN, ff \in BOOLEAN}

\* The windows signed documents reach, given the signer's signature.
WinsSigned(sig) ==
    WinsOf(TextsOf(DocsWith(sig, SignedCert, KeyCert, KeySig)), JSONStringify(GoodDoc(sig)))

Wins == WinsSigned(GoodSig)

---------------------------------------------------------------------------
(* The page, one invocation at a time: Spec.                               *)

NoPdf == [pc |-> "off"]
NoCj == [pc |-> "off"]
NoWin == [hash |-> <<>>, resp |-> NoResp, file |-> NoFile,
          pem |-> 0, hasDS |-> FALSE, hasFflate |-> FALSE]
EmptyResult == [cls |-> "", text |-> "", details |-> NoDetails]

\* The invocations the page runs.
Flows == {1}

Init ==
    /\ win \in Wins
    /\ flow = [f \in Flows |-> IdleFlow]
    /\ resultEl = EmptyResult
    /\ hashInput = <<>>
    /\ pdf = NoPdf
    /\ cj = NoCj

Next == \E f \in Flows : FlowStep(f)

Spec == Init /\ [][Next]_vars

---------------------------------------------------------------------------
(* Properties of the flows (Spec).                                         *)

\* The flow's request ended with verifyPkcs1v15 returning true.
VerifiedTrue(fl) ==
    /\ fl.pc = "done"
    /\ "verifyPkcs1v15" \in fl.calls
    /\ fl.ret.ok
    /\ fl.ret.v = VBool(TRUE)

\* The result element presents the verified indication: the "ok" class or
\* the "Verified" mark.
PresentsSuccess == resultEl.cls = "ok" \/ resultEl.text = VerifiedMark

\* C1: in every state the flows reach, the result element presents the
\* verified/success indication only if verifyPkcs1v15 returned true for that
\* same request (not while loading, not after a rejected payload, an
\* exception or a false result).
C1_SuccessOnlyIfVerified ==
    PresentsSuccess => \E f \in DOMAIN flow : VerifiedTrue(flow[f])

\* The outcomes that say the payload lacks cert or sig.
ShapeMessages == {"Invalid payload format.", "Embedded /CertPayload missing cert/sig."}

\* The window's payload reference resolves, on the path flow fl took, to a
\* document that is null, no object, or lacks a truthy cert or sig.  (The
\* inline tokens are zlib containers, which DecompressionStream reads.)
ResolvesToBadShape(fl) ==
    \E d \in PayloadDocs :
        /\ BadShape(d)
        /\ \/ /\ fl.kind = "hash" /\ "fetch" \in fl.calls
              /\ win.resp.net /\ win.resp.status = 200
              /\ win.resp.body = JSONStringify(d)
           \/ /\ fl.kind = "hash" /\ "inflateFromBase64Url" \in fl.calls
              /\ win.hasDS
              /\ win.hash = Token(JSONStringify(d))
           \/ /\ fl.kind = "files" /\ "extractPayloadFromPdfFile" \in fl.calls
              /\ win.file.bytes = PdfWith(JSONStringify(d))

\* C2: for every resolved payload that is null, not an object, or lacks a
\* non-empty cert or sig, the flow ends with an invalid-payload-shape outcome
\* and verifyPkcs1v15 is never called, on the URL path, the inline-token path
\* and the PDF path.
C2_BadShapeRejected ==
    \A f \in DOMAIN flow :
        (flow[f].pc = "done" /\ ResolvesToBadShape(flow[f]))
        => /\ flow[f].shown.message \in ShapeMessages
           /\ ~flow[f].shown.status
           /\ "verifyPkcs1v15" \notin flow[f].calls

\* The names of the uploaded files that end in ".pdf", in either letter case.
PdfNames == {NamePdf, NamePdfUpper}

\* The file's declared type or its name says PDF.
PdfLike(file) == file.type = "application/pdf" \/ file.name \in PdfNames

\* runFilesFlow has loaded the key and looked at the uploaded file.
FilesChose(fl) == fl.kind = "files" /\ fl.publicKey # 0 /\ win.file.present

\* C6 (as the code has it): an uploaded file whose type is application/pdf
\* or whose name ends in .pdf (in any letter case) goes through the PDF
\* extraction path; every other uploaded file is rejected with "Only PDF
\* files are supported for upload." and nothing of it is parsed or verified.
C6_PdfOrRejected ==
    \A f \in DOMAIN flow :
        FilesChose(flow[f])
        => IF PdfLike(win.file)
           THEN "extractPayloadFromPdfFile" \in flow[f].calls
           ELSE /\ flow[f].pc = "done"
                /\ flow[f].shown.message = "Only PDF files are supported for upload."
                /\ ~flow[f].shown.status
                /\ flow[f].calls = {}

\* A file that is no PDF and holds the signer's JSON text has been rejected.
C6_Witness ==
    \E f \in DOMAIN flow :
        /\ FilesChose(flow[f])
        /\ ~PdfLike(win.file)
        /\ win.file.bytes = Utf8Encode(GoodText)
        /\ flow[f].shown.message = "Only PDF files are supported for upload."

\* C6 as stated: a PDF file goes through the extraction path, and every
\* other uploaded file is parsed as UTF-8 JSON text and then verified.
C6_OtherFilesParsedAsJson ==
    \A f \in DOMAIN flow :
        FilesChose(flow[f])
        => IF PdfLike(win.file)
           THEN "extractPayloadFromPdfFile" \in flow[f].calls
           ELSE flow[f].pc = "done"
                => /\ "JSON.parse" \in flow[f].calls
                   /\ (win.file.bytes = Utf8Encode(GoodText)
                        => "verifyPkcs1v15" \in flow[f].calls)

\* The fetch of the payload URL was answered with a status outside 200..299.
FetchRefused(fl) ==
    /\ "fetch" \in fl.calls
    /\ fl.pc # "awaitFetch"
    /\ win.resp.net
    /\ (win.resp.status < 200 \/ win.resp.status > 299)

\* C7: on the URL path, whenever the GET returns a non-success status the
\* resolver fails with an error that carries that status, and no JSON parse,
\* no canonicalization and no signature verification occur for the request.
C7_StatusErrorStopsFlow ==
    \A f \in DOMAIN flow :
        FetchRefused(flow[f])
        => /\ flow[f].pc = "done"
           /\ flow[f].shown = [status |-> FALSE, message |-> "Fetch failed: ",
                               code |-> win.resp.status]
           /\ flow[f].calls \cap {"JSON.parse", "inflateFromBase64Url",
                                   "canonicalJSONString", "verifyPkcs1v15"} = {}

\* A fetch answered 404 has ended the flow with the error carrying 404.
C7_Witness ==
    \E f \in DOMAIN flow :
        /\ FetchRefused(flow[f])
        /\ win.resp.status = 404
        /\ flow[f].shown.code = 404

---------------------------------------------------------------------------
(* extractPayloadFromPdfFile, one loop iteration at a time: SpecPdf.       *)
(* pdf is one call: bytes (the file), pc ("locate", "lit", "hex", "done"), *)
(* kind and tok (the token's opening byte and its index), st (the locals   *)
(* of the running loop), payload (the Uint8Array handed to                 *)
(* decodePdfStringBytes) and ret (how the call ends).                      *)

\* The longest token body the buffers enumerate.
MaxBody == 4

LitAlphabet == {40, 41, 92, 97, 49, 13, 10}
HexAlphabet == {52, 70, 99, 32, 10, 62, 122}

Bodies(alphabet) == UNION {[1..n -> alphabet] : n \in 0..MaxBody}

PdfKey == PdfHead \o Marker

\* /CertPayload (Hello \(World\)) followed by another entry.
LitExample ==
    PdfKey \o <<32>>
    \o Str(<<"(", "H", "e", "l", "l", "o", " ", "\\", "(", "W", "o", "r", "l", "d",
             "\\", ")", ")", " ", "/", "X", " ", "(", "y", ")">>)

\* /CertPayload <48656C6C6F> and /CertPayload <48656C6C6>
HexExample ==
    PdfKey \o <<32>>
    \o Str(<<"<", "4", "8", "6", "5", "6", "C", "6", "C", "6", "F", ">">>)
HexOddExample ==
    PdfKey \o <<32>> \o Str(<<"<", "4", "8", "6", "5", "6", "C", "6", "C", "6", ">">>)

\* Literal strings made of escapes: the one-character escapes, octal
\* escapes of one to three digits and a digit that is not octal, and the
\* three line continuations.
EscapeExamples ==
    {PdfKey \o Str(<<"(", "\\", "n", "\\", "r", "\\", "t", "\\", "b", "\\", "f",
                     "\\", "(", "\\", ")", "\\", "\\", ")">>),
     PdfKey \o Str(<<"(", "\\", "4", "0", "0", "\\", "7", "7", "7", "7", "\\", "8",
                     "\\", "1", "2", "a", "\\", "0", ")">>),
     PdfKey \o <<40, 92, 13, 10, 97, 92, 13, 98, 92, 10, 10, 99, 92, 122, 41>>}

\* Hex strings whose bytes take each rule of decodePdfStringBytes: a
\* UTF-16BE and a UTF-16LE mark, a mark before an odd number of bytes, a
\* mark alone, UTF-8 with and without a mark, one byte, and bytes that are
\* not UTF-8.
DecodeExamples ==
    {PdfKey \o <<60>> \o Str(h) \o <<62>> :
        h \in {<<"F", "E", "F", "F", "0", "0", "4", "1">>,
               <<"F", "F", "F", "E", "4", "1", "0", "0">>,
               <<"F", "E", "F", "F", "0", "0", "4", "1", "0", "0">>,
               <<"F", "E", "F", "F">>,
               <<"C", "3", "A", "9">>,
               <<"E", "F", "B", "B", "B", "F", "4", "1">>,
               <<"4", "1">>,
               <<"E", "9">>,
               <<"8", "0">>,
               <<"4", "1", "9", "F", "F", "F">>}}

\* Buffers with the marker twice, and with a byte after the marker that
\* starts no token (NUL, a digit).
TwoMarkers == PdfKey \o <<32, 10, 40, 97, 41, 32>> \o Marker \o <<60, 52, 49, 62>>
LocateExamples ==
    {TwoMarkers,
     PdfKey \o <<60, 52, 49, 62, 32>> \o Marker \o <<40, 97, 41>>,
     PdfKey \o <<0, 40, 97, 41>>,
     PdfKey \o <<9, 49, 40, 97, 41>>,
     PdfKey \o <<13, 10, 9, 12, 32>>}

PdfBuffers ==
    {PdfKey \o <<40>> \o b : b \in Bodies(LitAlphabet)}
    \cup {PdfKey \o <<32, 60>> \o b : b \in Bodies(HexAlphabet)}
    \cup EscapeExamples \cup DecodeExamples \cup LocateExamples
    \cup {LitExample, HexExample, HexOddExample,
          PdfWith(GoodText),
          PdfWith(JSONStringify(Obj1(KeyCert, SignedCert))),
          PdfKey \o <<13, 10, 9, 12, 60, 52, 9, 56, 12, 54, 13, 53, 62>>,
          PdfKey \o <<60>> \o Str(<<"7", "B", "7", "D">>),
          PdfKey \o <<10, 40, 92, 49, 50>>,
          PdfHead, PdfKey, PdfKey \o <<32, 32>>, PdfKey \o <<32, 47, 88>>,
          PdfKey \o <<47, 88, 32>> \o Marker \o <<40, 97, 41>>}

NoSt == [i |-> 0]
Pending == Returned(VNull)

InitPdf ==
    /\ pdf \in {[pc |-> "locate", bytes |-> b, kind |-> "none", tok |-> 0, st |-> NoSt,
                 iters |-> 0, payload |-> <<>>, text |-> <<>>, ret |-> Pending] :
                    b \in PdfBuffers}
    /\ flow = [f \in Flows |-> IdleFlow]
    /\ resultEl = EmptyResult
    /\ hashInput = <<>>
    /\ win = NoWin
    /\ cj = NoCj

\* The statements before the token (lines 114 to 130, 193, 216).
PdfLocate ==
    /\ pdf.pc = "locate"
    /\ LET Go(loc) ==
               CASE loc.kind = "(" ->
                      [pdf EXCEPT !.pc = "lit", !.kind = "(", !.tok = loc.i,
                                  !.st = LitStart(loc.i)]
                 [] loc.kind = "<" ->
                      [pdf EXCEPT !.pc = "hex", !.kind = "<", !.tok = loc.i,
                                  !.st = HexStart(loc.i)]
                 [] OTHER -> [pdf EXCEPT !.pc = "done", !.ret = Thrown(Err(loc.kind))]
       IN pdf' = Go(Locate(pdf.bytes))
    /\ UNCHANGED <<flow, resultEl, hashInput, win, cj>>

\* One iteration of the literal-string loop.
LitStep ==
    /\ pdf.pc = "lit"
    /\ LitCond(pdf.bytes, pdf.st)
    /\ pdf' = [pdf EXCEPT !.st = LitIter(pdf.bytes, pdf.st), !.iters = pdf.iters + 1]
    /\ UNCHANGED <<flow, resultEl, hashInput, win, cj>>

\* The literal-string loop has ended: the statements after it.
LitEnd ==
    /\ pdf.pc = "lit"
    /\ ~LitCond(pdf.bytes, pdf.st)
    /\ pdf' = [pdf EXCEPT !.pc = "done",
                          !.payload = IF LitUnterminated(pdf.st) THEN <<>> ELSE pdf.st.out,
                          !.text = IF LitUnterminated(pdf.st) THEN <<>>
                                   ELSE decodePdfStringBytes(pdf.st.out),
                          !.ret = LitFinish(pdf.st)]
    /\ UNCHANGED <<flow, resultEl, hashInput, win, cj>>

\* One iteration of the hex-string loop.
HexStep ==
    /\ pdf.pc = "hex"
    /\ HexCond(pdf.bytes, pdf.st)
    /\ pdf' = [pdf EXCEPT !.st = HexIter(pdf.bytes, pdf.st), !.iters = pdf.iters + 1]
    /\ UNCHANGED <<flow, resultEl, hashInput, win, cj>>

\* The hex-string loop has ended: the statements after it.
HexEnd ==
    /\ pdf.pc = "hex"
    /\ ~HexCond(pdf.bytes, pdf.st)
    /\ pdf' = [pdf EXCEPT !.pc = "done",
                          !.payload = HexBytes(HexPad(pdf.st.hexChars)),
                          !.text = decodePdfStringBytes(HexBytes(HexPad(pdf.st.hexChars))),
                          !.ret = HexFinish(pdf.st)]
    /\ UNCHANGED <<flow, resultEl, hashInput, win, cj>>

NextPdf == PdfLocate \/ LitStep \/ LitEnd \/ HexStep \/ HexEnd

SpecPdf == InitPdf /\ [][NextPdf]_vars

---------------------------------------------------------------------------
(* Properties of the token parsers (SpecPdf).  The reference notions are   *)
(* written from the PDF syntax, not from the loops: a parenthesis is       *)
(* escaped when an odd number of backslashes stands right before it.       *)

\* The number of consecutive backslashes that end right before index k.
BackslashRun(bytes, k) ==
    Cardinality({m \in 1..k : \A j \in (k - m)..(k - 1) : At(bytes, j) = 92})

Unescaped(bytes, k) == BackslashRun(bytes, k) % 2 = 0

\* The unescaped occurrences of byte c after the opening parenthesis at tok
\* and before index k.
ParensBefore(bytes, tok, k, c) ==
    {j \in (tok + 1)..(k - 1) : At(bytes, j) = c /\ Unescaped(bytes, j)}

\* The nesting depth in front of index k.
RefDepth(bytes, tok, k) ==
    1 + Cardinality(ParensBefore(bytes, tok, k, 40))
      - Cardinality(ParensBefore(bytes, tok, k, 41))

\* The unescaped ')' that bring the depth from 1 to 0; the least of them
\* closes the token.
Closers(bytes, tok) ==
    {k \in (tok + 1)..(Len(bytes) - 1) :
        At(bytes, k) = 41 /\ Unescaped(bytes, k) /\ RefDepth(bytes, tok, k) = 1}

UnterminatedError == Thrown(Err("Unterminated /CertPayload string in PDF."))

\* C8: when a literal-string token starts after /CertPayload and the buffer
\* ends before the nesting depth returns to 0 (also right after a backslash,
\* or inside an octal or line-continuation escape), the call fails with the
\* unterminated-token error and returns no record.
C8_UnterminatedLiteralFails ==
    (pdf.pc = "done" /\ pdf.kind = "(" /\ Closers(pdf.bytes, pdf.tok) = {})
    => pdf.ret = UnterminatedError

\* A literal that ends right after a backslash has been refused.
C8_Witness ==
    /\ pdf.pc = "done" /\ pdf.kind = "("
    /\ Closers(pdf.bytes, pdf.tok) = {}
    /\ At(pdf.bytes, Len(pdf.bytes) - 1) = 92
    /\ Unescaped(pdf.bytes, Len(pdf.bytes) - 1)
    /\ pdf.ret = UnterminatedError

HelloWorld ==
    Str(<<"H", "e", "l", "l", "o", " ", "(", "W", "o", "r", "l", "d", ")">>)

\* While the literal parser runs the depth is the reference depth; when it
\* ends on a closed token it stands right after the closing ')', with depth
\* 0 and the payload it had emitted by then.
LitBalanced ==
    /\ pdf.pc = "lit" => pdf.st.depth = RefDepth(pdf.bytes, pdf.tok, pdf.st.i)
    /\ (pdf.pc = "done" /\ pdf.kind = "(" /\ Closers(pdf.bytes, pdf.tok) # {})
       => /\ pdf.st.i = Least(Closers(pdf.bytes, pdf.tok)) + 1
          /\ pdf.st.depth = 0
          /\ pdf.payload = pdf.st.out
    /\ (pdf.pc = "done" /\ pdf.bytes = LitExample) => pdf.payload = HelloWorld

\* What one step of the literal parser does with the byte b it examines.
LitParenStep ==
    /\ (pdf.pc = "locate" /\ pdf'.pc = "lit")
       => /\ At(pdf.bytes, pdf'.tok) = 40
          /\ pdf'.st.i = pdf'.tok + 1
          /\ pdf'.st.depth = 1 /\ pdf'.st.out = <<>>
    /\ (pdf.pc = "lit" /\ pdf'.pc = "lit")
       => LET b == At(pdf.bytes, pdf.st.i) IN
          /\ pdf.st.depth >= 1
          /\ b = 40 => /\ pdf'.st.depth = pdf.st.depth + 1
                       /\ pdf'.st.out = Append(pdf.st.out, 40)
                       /\ pdf'.st.i = pdf.st.i + 1
          /\ b = 41 => /\ pdf'.st.depth = pdf.st.depth - 1
                       /\ pdf'.st.out = IF pdf.st.depth = 1 THEN pdf.st.out
                                        ELSE Append(pdf.st.out, 41)
                       /\ pdf'.st.i = pdf.st.i + 1
    /\ (pdf.pc = "lit" /\ pdf.st.depth = 0)
       => pdf'.pc = "done" /\ pdf'.st = pdf.st /\ pdf'.payload = pdf.st.out

\* C9: literal-string parsing is balanced-parenthesis aware: the depth
\* starts at 1 after the opening '(', every unescaped '(' increments it and
\* is emitted, every unescaped ')' decrements it and is emitted unless it
\* brings the depth to 0, parsing stops exactly at that ')' and emits no
\* byte after it; (Hello \(World\)) decodes to Hello (World).
C9_BalancedParens == []LitBalanced /\ [][LitParenStep]_vars

\* The example token has been decoded, the entry after it left alone.
C9_Witness ==
    /\ pdf.pc = "done" /\ pdf.bytes = LitExample
    /\ pdf.payload = HelloWorld
    /\ pdf.st.i < Len(pdf.bytes)

\* The white-space bytes: space, CR, LF, tab, form feed.
RefWhite(c) == c \in {32, 13, 10, 9, 12}

RefIsHexDigit(c) == c \in (48..57) \cup (65..70) \cup (97..102)

RefDigitValue(c) == IF c <= 57 THEN c - 48 ELSE IF c <= 70 THEN c - 55 ELSE c - 87

\* The indexes of the '>' after the '<' at tok.
HexClosers(bytes, tok) == {k \in (tok + 1)..(Len(bytes) - 1) : At(bytes, k) = 62}

\* The bytes between the '<' at tok and the first '>'.
HexBody(bytes, tok) ==
    LET Upto(e) == [j \in 1..(e - tok - 1) |-> At(bytes, tok + j)]
    IN Upto(Least(HexClosers(bytes, tok)))

\* The bytes a well-formed hex body stands for.
RefHexDecode(body) ==
    LET Pairs(d) == [j \in 1..(Len(d) \div 2) |->
                       16 * RefDigitValue(d[2 * j - 1]) + RefDigitValue(d[2 * j])]
        Padded(d) == IF Len(d) % 2 = 1 THEN Pairs(Append(d, 48)) ELSE Pairs(d)
    IN Padded(SelectSeq(body, LAMBDA c : ~RefWhite(c)))

\* The token at tok is closed by '>' and made of hex digits and white space.
WellFormedHex(bytes, tok) ==
    /\ HexClosers(bytes, tok) # {}
    /\ \A j \in (tok + 1)..(Least(HexClosers(bytes, tok)) - 1) :
          RefIsHexDigit(At(bytes, j)) \/ RefWhite(At(bytes, j))

\* C10: for every hex-string token made of hex digits and white space and
\* closed by '>', the decoder ignores the white space, appends one '0' when
\* the number of digits is odd, and emits one byte per pair of digits in
\* order; <48656C6C6F> decodes to Hello, and an odd-length token decodes as
\* if it ended in an extra 0.
C10_HexDecoding ==
    /\ (pdf.pc = "done" /\ pdf.kind = "<" /\ WellFormedHex(pdf.bytes, pdf.tok))
       => pdf.payload = RefHexDecode(HexBody(pdf.bytes, pdf.tok))
    /\ (pdf.pc = "done" /\ pdf.bytes = HexExample)
       => pdf.payload = Str(<<"H", "e", "l", "l", "o">>)
    /\ (pdf.pc = "done" /\ pdf.bytes = HexOddExample)
       => pdf.payload = <<72, 101, 108, 108, 96>>

\* The odd-length example has been decoded with the implicit 0.
C10_Witness ==
    /\ pdf.pc = "done" /\ pdf.bytes = HexOddExample
    /\ WellFormedHex(pdf.bytes, pdf.tok)
    /\ pdf.payload = <<72, 101, 108, 108, 96>>

---------------------------------------------------------------------------
(* canonicalJSONString and verifyCertObject over built values: SpecCanon.  *)
(* cj holds three JSON.parse results grown together, one level at a time:  *)
(* v, the value the signer signs; p, the same value with the members of    *)
(* every object inserted in another order; and t, a value an attacker      *)
(* presents in the place of v (v itself, or v changed at one level).       *)
(* out, outP and outT are their canonical texts, re the parse of out,      *)
(* again the canonical text of re, and ret what verifyCertObject returns   *)
(* for t under the signature made over v.                                  *)

\* The number of levels a value is wrapped in.
MaxDepth == 2

Leaves == {VNull, VBool(TRUE), VNum(0), VNegZero, VStr(<<97, 34>>)}

Key9 == Str(<<"9">>)
Key10 == Str(<<"1", "0">>)

\* The objects JSON.parse builds for a text with one member, and with
\* member k1 before member k2.
Make1(k, x) == DefineProp(EmptyObj, k, x)
Make2(k1, x1, k2, x2) == DefineProp(DefineProp(EmptyObj, k1, x1), k2, x2)

\* Two keys with one code point each: U+FF5E, and U+1F600 (a surrogate pair).
KeyWave == <<65374>>
KeyAstral == <<55357, 56832>>

Shapes == {"arr1", "arr2", "ab", "idx", "proto", "a", "pair", "astral"}

\* x wrapped in one more level; first says whether the member that holds x
\* comes first in the text.
Wrap(shape, x, first) ==
    CASE shape = "arr1"  -> VArr(<<x>>)
      [] shape = "arr2"  -> VArr(<<VNum(1), x>>)
      [] shape = "ab"    -> IF first THEN Make2(KeyB, x, KeyA, VNum(1))
                            ELSE Make2(KeyA, VNum(1), KeyB, x)
      [] shape = "idx"   -> IF first THEN Make2(Key10, x, Key9, VNum(1))
                            ELSE Make2(Key9, VNum(1), Key10, x)
      [] shape = "proto" -> IF first THEN Make2(ProtoKey, x, KeyA, VNum(1))
                            ELSE Make2(KeyA, VNum(1), ProtoKey, x)
      [] shape = "pair"  -> VArr(<<Make1(KeyA, x), Make2(KeyA, x, ProtoKey, VNum(1))>>)
      [] shape = "astral" -> IF first THEN Make2(KeyWave, x, KeyAstral, VNum(1))
                             ELSE Make2(KeyAstral, VNum(1), KeyWave, x)
      [] OTHER           -> Make1(KeyA, x)

\* The level changed: an element added or moved, a member changed, dropped,
\* renamed or added.
Tampered(shape, x) ==
    CASE shape = "arr1"  -> {VArr(<<x, x>>)}
      [] shape = "arr2"  -> {VArr(<<x, VNum(1)>>)}
      [] shape = "ab"    -> {Make2(KeyB, x, KeyA, VNum(2)), Make1(KeyB, x)}
      [] shape = "idx"   -> {Make2(Key10, VNum(1), Key9, x)}
      [] shape = "proto" -> {Make1(KeyA, VNum(1))}
      [] shape = "pair"  -> {VArr(<<Make2(KeyA, x, ProtoKey, VNum(1)), Make1(KeyA, x)>>)}
      [] shape = "astral" -> {Make2(KeyWave, VNum(1), KeyAstral, x)}
      [] OTHER           -> {Make1(KeyB, x),
                             Make2(KeyA, x, ProtoKey, Make1(KeyB, VNum(2)))}

\* Two JSON values are equal up to the order of the members of their
\* objects (numbers are compared as numbers).
RECURSIVE SameUpToKeyOrder(_, _)
SameUpToKeyOrder(a, b) ==
    /\ a.t = b.t
    /\ CASE a.t = "arr" ->
               /\ Len(a.items) = Len(b.items)
               /\ \A j \in 1..Len(a.items) : SameUpToKeyOrder(a.items[j], b.items[j])
         [] a.t = "obj" ->
               /\ {a.keys[j] : j \in 1..Len(a.keys)} = {b.keys[j] : j \in 1..Len(b.keys)}
               /\ \A j \in 1..Len(a.keys) :
                     SameUpToKeyOrder(a.items[j], b.items[IndexOfKey(b.keys, a.keys[j])])
         [] a.t = "num"  -> a.n = b.n
         [] a.t = "str"  -> a.s = b.s
         [] a.t = "bool" -> a.b = b.b
         [] OTHER        -> TRUE

NoRet == Returned(VNull)

InitCanon ==
    /\ cj \in {[pc |-> "build", depth |-> 0, v |-> x, p |-> x, t |-> y,
                 out |-> <<>>, outP |-> <<>>, outT |-> <<>>,
                 re |-> ParseFail, again |-> <<>>, ret |-> NoRet] :
                    x \in Leaves, y \in Leaves}
    /\ flow = [f \in Flows |-> IdleFlow]
    /\ resultEl = EmptyResult
    /\ hashInput = <<>>
    /\ win = NoWin
    /\ pdf = NoPdf

\* The three values get one more level; t takes a changed level only while
\* it still equals v up to key order.
Build ==
    /\ cj.pc = "build"
    /\ cj.depth < MaxDepth
    /\ \E shape \in Shapes :
         \E tw \in {Wrap(shape, cj.t, TRUE)}
                    \cup (IF SameUpToKeyOrder(cj.v, cj.t)
                          THEN Tampered(shape, cj.t) ELSE {}) :
             cj' = [cj EXCEPT !.depth = cj.depth + 1,
                              !.v = Wrap(shape, cj.v, TRUE),
                              !.p = Wrap(shape, cj.p, FALSE),
                              !.t = tw]
    /\ UNCHANGED <<pdf, flow, resultEl, hashInput, win>>

\* canonicalJSONString is applied to the three values.
Canonicalize ==
    /\ cj.pc = "build"
    /\ cj' = [cj EXCEPT !.pc = "canon",
                        !.out = canonicalJSONString(cj.v),
                        !.outP = canonicalJSONString(cj.p),
                        !.outT = canonicalJSONString(cj.t)]
    /\ UNCHANGED <<pdf, flow, resultEl, hashInput, win>>

\* canonicalJSONString(JSON.parse(out))
Reparse ==
    /\ cj.pc = "canon"
    /\ LET Again(r) == [cj EXCEPT !.pc = "reparsed", !.re = r,
                                  !.again = IF r.ok THEN canonicalJSONString(r.v)
                                            ELSE <<>>]
       IN cj' = Again(JSONParse(cj.out))
    /\ UNCHANGED <<pdf, flow, resultEl, hashInput, win>>

\* verifyCertObject(t, sig, key), sig made by the key's owner over v.
VerifyPresented ==
    /\ cj.pc = "reparsed"
    /\ cj' = [cj EXCEPT !.pc = "verified",
                        !.ret = verifyCertObject(cj.t, VStr(SigB64(1, cj.v)), 1)]
    /\ UNCHANGED <<pdf, flow, resultEl, hashInput, win>>

NextCanon == Build \/ Canonicalize \/ Reparse \/ VerifyPresented

SpecCanon == InitCanon /\ [][NextCanon]_vars

---------------------------------------------------------------------------
(* Properties of the canonical form (SpecCanon).                           *)

\* C3: tampering is detected as false, not as an error: for every signed
\* value c and every value c' that differs from c in anything other than
\* object key order, canonicalJSONString(c') differs from
\* canonicalJSONString(c), so verifyCertObject(c', sig(c), key) returns
\* false and does not throw.
C3_TamperingDetected ==
    (cj.pc = "verified" /\ ~SameUpToKeyOrder(cj.v, cj.t))
    => /\ cj.outT # cj.out
       /\ cj.ret = Returned(VBool(FALSE))

\* C4: canonicalJSONString returns the identical string for any two JSON
\* values that are equal up to the insertion order of the keys of their
\* objects, at any nesting depth and also for objects inside arrays.
C4_KeyOrderInsensitive ==
    cj.pc \in {"canon", "reparsed", "verified"}
    => /\ SameUpToKeyOrder(cj.v, cj.p)
       /\ cj.out = cj.outP
       /\ SameUpToKeyOrder(cj.v, cj.t) => cj.out = cj.outT

\* An array holding an object, its keys inserted in two orders, has been
\* canonicalized both ways.
C4_Witness ==
    /\ cj.pc = "canon"
    /\ cj.v.t = "arr"
    /\ cj.v # cj.p
    /\ JSONStringify(cj.v) # JSONStringify(cj.p)
    /\ cj.out = cj.outP

\* C5: canonicalJSONString(JSON.parse(canonicalJSONString(v))) equals
\* canonicalJSONString(v) for every JSON value v.
C5_IdempotentThroughParse ==
    cj.pc \in {"reparsed", "verified"} => cj.re.ok /\ cj.again = cj.out

\* A nested value whose canonical text is not its own text has been
\* canonicalized, parsed and canonicalized again.
C5_Witness ==
    /\ cj.pc = "reparsed"
    /\ cj.depth > 1
    /\ cj.out # JSONStringify(cj.v)
    /\ cj.re.ok /\ cj.again = cj.out

---------------------------------------------------------------------------
(* Two invocations in flight together: SpecRace.  The page starts          *)
(* runHashFlow on load and on a click and runFilesFlow on a click; nothing *)
(* keeps a second invocation from starting while the first one awaits.     *)
(* All of them write the one result element and read the one hash input.   *)

RaceFlows == {1, 2}

\* Windows that hold a payload reference and an uploaded file at once.
RaceWins ==
    {[hash |-> h, resp |-> Resp(TRUE, 200, GoodText), file |-> fl,
      pem |-> 1, hasDS |-> TRUE, hasFflate |-> FALSE] :
        h \in {Url, Token(GoodText)},
        fl \in {NoFile, File("application/pdf", NamePdf, PdfWith(GoodText)),
                File("application/pdf", NamePdf, PdfKey)}}

InitRace ==
    /\ win \in RaceWins
    /\ flow = [f \in RaceFlows |-> IdleFlow]
    /\ resultEl = EmptyResult
    /\ hashInput = <<>>
    /\ pdf = NoPdf
    /\ cj = NoCj

NextRace == \E f \in RaceFlows : FlowStep(f)

SpecRace == InitRace /\ [][NextRace]_vars

\* Every invocation has been started and has finished.
AllDone == \A f \in DOMAIN flow : flow[f].pc = "done"

\* What the result element holds after the last show call of a flow.
Rendered(fl) ==
    [cls |-> IF fl.shown.status THEN "ok" ELSE "err", text |-> VerifiedMark]

\* C11: overlapping verification requests are independent: no flow
\* overwrites state written by another flow, the outcome each reports is
\* determined by its own input, and the outcome left displayed once all have
\* finished does not depend on the order in which their awaits resolve: it is
\* the same whichever flow finished last.
C11_FlowsIndependent ==
    AllDone => \A f \in DOMAIN flow :
                   /\ resultEl.cls = Rendered(flow[f]).cls
                   /\ resultEl.text = Rendered(flow[f]).text

\* The canonical text of an array as its elements give it: the canonical
\* texts of the elements, in their positions.
RefArrayText(items) ==
    <<91>>
    \o Flatten([j \in 1..Len(items) |->
                   (IF j > 1 THEN <<44>> ELSE <<>>) \o canonicalJSONString(items[j])],
               1, Len(items))
    \o <<93>>

\* b holds the elements of a in another order, and some element that moved
\* differs (in more than key order) from the one that took its place.
Reordered(a, b) ==
    /\ a.t = "arr" /\ b.t = "arr"
    /\ Len(a.items) = Len(b.items)
    /\ \E pi \in Permutations(1..Len(a.items)) :
          \A j \in 1..Len(a.items) : b.items[j] = a.items[pi[j]]
    /\ \E j \in 1..Len(a.items) : ~SameUpToKeyOrder(a.items[j], b.items[j])

Canonicalized == cj.pc \in {"canon", "reparsed", "verified"}

\* C12: canonicalJSONString preserves array order: the elements of an array
\* appear in the canonical text in their positions, each canonicalized, so
\* two arrays with the same elements in different orders canonicalize to
\* different strings whenever the reordered elements differ.
C12_ArrayOrderPreserved ==
    Canonicalized
    => /\ cj.v.t = "arr" => cj.out = RefArrayText(cj.v.items)
       /\ cj.t.t = "arr" => cj.outT = RefArrayText(cj.t.items)
       /\ Reordered(cj.v, cj.t) => cj.out # cj.outT

\* The code points of a string given by its UTF-16 code units.
RECURSIVE CodePoints(_)
CodePoints(s) ==
    IF s = <<>> THEN <<>>
    ELSE IF /\ Len(s) >= 2
            /\ s[1] >= 55296 /\ s[1] <= 56319
            /\ s[2] >= 56320 /\ s[2] <= 57343
         THEN <<65536 + (s[1] - 55296) * 1024 + (s[2] - 56320)>>
              \o CodePoints(SubSeq(s, 3, Len(s)))
         ELSE <<s[1]>> \o CodePoints(Tail(s))

CodePointLess(a, b) == SeqLess(CodePoints(a), CodePoints(b))

\* The keys of K in ascending code-point order.
RECURSIVE AscendingKeys(_)
AscendingKeys(K) ==
    IF K = {} THEN <<>>
    ELSE LET least == CHOOSE k \in K : \A m \in K \ {k} : CodePointLess(k, m)
         IN <<least>> \o AscendingKeys(K \ {least})

\* The text the spec describes: arrays in order, every object's members in
\* ascending code-point order of their keys, no whitespace.
RECURSIVE RefCanonText(_)
RefCanonText(x) ==
    IF x.t = "arr"
    THEN <<91>>
         \o Flatten([j \in 1..Len(x.items) |->
                        (IF j > 1 THEN <<44>> ELSE <<>>) \o RefCanonText(x.items[j])],
                    1, Len(x.items))
         \o <<93>>
    ELSE IF x.t = "obj"
    THEN LET ks == AscendingKeys({x.keys[j] : j \in 1..Len(x.keys)})
         IN <<123>>
            \o Flatten([j \in 1..Len(ks) |->
                           (IF j > 1 THEN <<44>> ELSE <<>>) \o Quote(ks[j]) \o <<58>>
                           \o RefCanonText(GetProp(x, ks[j]))],
                       1, Len(ks))
            \o <<125>>
    ELSE JSONStringify(x)

\* No object of x, at any depth, has a member named "__proto__".
RECURSIVE NoProtoKey(_)
NoProtoKey(x) ==
    IF x.t = "arr" THEN \A j \in 1..Len(x.items) : NoProtoKey(x.items[j])
    ELSE IF x.t = "obj"
    THEN \A j \in 1..Len(x.keys) : x.keys[j] # ProtoKey /\ NoProtoKey(x.items[j])
    ELSE TRUE

\* C13: in the text canonicalJSONString returns, the keys of every object,
\* at every depth, appear in ascending code-point order, integer-like keys
\* ("9", "10") and keys with characters outside the Basic Multilingual Plane
\* included.
C13_KeysInCodePointOrder ==
    Canonicalized /\ NoProtoKey(cj.v) => cj.out = RefCanonText(cj.v)

---------------------------------------------------------------------------
(* Further properties of extractPayloadFromPdfFile (SpecPdf).              *)

MalformedError == Thrown(Err("Malformed /CertPayload in PDF."))
UnsupportedError ==
    Thrown(Err("Unsupported /CertPayload format (expected literal or hex string)."))
NotFoundError == Thrown(Err("No /CertPayload found in PDF metadata."))
MissingError == Thrown(Err("Embedded /CertPayload missing cert/sig."))
NotJsonError == Thrown(Err("Embedded /CertPayload is not valid JSON after decoding."))

\* The bytes of the hex token at tok up to its '>' (or to the end of the
\* buffer) that are neither white space nor hex digits.
StrayHexBytes(bytes, tok) ==
    LET Last(closers) == IF closers = {} THEN Len(bytes) - 1 ELSE Least(closers) - 1
    IN {j \in (tok + 1)..Last(HexClosers(bytes, tok)) :
           ~RefWhite(At(bytes, j)) /\ ~RefIsHexDigit(At(bytes, j))}

\* C14: in hex-string parsing every non-whitespace character before the
\* closing '>' must be a hex digit: a hex token that contains any other
\* character is rejected as a malformed token and is never converted into
\* output bytes.
C14_NonHexRejected ==
    (pdf.pc = "done" /\ pdf.kind = "<" /\ StrayHexBytes(pdf.bytes, pdf.tok) # {})
    => /\ pdf.ret \in {MalformedError, UnsupportedError}
       /\ pdf.payload = <<>>

\* What the escape whose first byte stands at index k (right after the
\* backslash) is to emit, and how many bytes it takes, backslash excluded.
RefOctalRun(bytes, k) ==
    Cardinality({m \in 1..3 : \A j \in 0..(m - 1) :
                                  At(bytes, k + j) \in 48..55})

RefOctalValue(bytes, k, n) ==
    CASE n = 1 -> At(bytes, k) - 48
      [] n = 2 -> (At(bytes, k) - 48) * 8 + (At(bytes, k + 1) - 48)
      [] OTHER -> (At(bytes, k) - 48) * 64 + (At(bytes, k + 1) - 48) * 8
                  + (At(bytes, k + 2) - 48)

RefEscapeTable ==
    {<<110, 10>>, <<114, 13>>, <<116, 9>>, <<98, 8>>, <<102, 12>>,
     <<40, 40>>, <<41, 41>>, <<92, 92>>}

RefEscape(bytes, k) ==
    LET e == At(bytes, k) IN
    IF e = 13 /\ At(bytes, k + 1) = 10 THEN [emit |-> <<>>, len |-> 2]
    ELSE IF e = 13 \/ e = 10 THEN [emit |-> <<>>, len |-> 1]
    ELSE IF e \in 48..55
    THEN [emit |-> <<RefOctalValue(bytes, k, RefOctalRun(bytes, k)) % 256>>,
          len |-> RefOctalRun(bytes, k)]
    ELSE IF \E pr \in RefEscapeTable : pr[1] = e
    THEN [emit |-> <<(CHOOSE pr \in RefEscapeTable : pr[1] = e)[2]>>, len |-> 1]
    ELSE [emit |-> <<e>>, len |-> 1]

\* The literal-string loop stands at a backslash that a byte follows.
AtEscape ==
    /\ pdf.pc = "lit" /\ LitCond(pdf.bytes, pdf.st)
    /\ At(pdf.bytes, pdf.st.i) = 92
    /\ pdf.st.i + 1 < Len(pdf.bytes)

EscapeStep ==
    AtEscape
    => /\ pdf'.st.depth = pdf.st.depth
       /\ pdf'.st.out = pdf.st.out \o RefEscape(pdf.bytes, pdf.st.i + 1).emit
       /\ pdf'.st.i = pdf.st.i + 1 + RefEscape(pdf.bytes, pdf.st.i + 1).len

\* C15: inside a literal string each backslash escape emits exactly the
\* specified bytes and never changes the nesting depth: backslash followed
\* by CR, LF or CRLF emits nothing; backslash followed by 1 to 3 octal
\* digits consumes at most 3 digits and emits their value modulo 256 as one
\* byte; backslash followed by n, r, t, b, f, '(', ')' or backslash emits
\* the corresponding single byte; backslash followed by any other byte
\* emits that byte.
C15_EscapesEmitSpecifiedBytes == [][EscapeStep]_vars

\* The three escape examples have been read to their closing parenthesis.
C15_Witness ==
    /\ pdf.pc = "done" /\ pdf.bytes \in EscapeExamples
    /\ pdf.payload \in {<<10, 13, 9, 8, 12, 40, 41, 92>>,
                        <<0, 255, 55, 56, 10, 97, 0>>,
                        <<97, 98, 10, 99, 122>>}

\* The token has been read and decoded: both parsers pass the bytes they
\* collected to decodePdfStringBytes, the literal parser only when the
\* string was closed.
Decoded ==
    /\ pdf.pc = "done" /\ pdf.kind \in {"(", "<"}
    /\ pdf.ret # UnterminatedError

\* The four rules as the spec gives them; the UTF-16 and UTF-8 decoders are
\* the platform's, the last rule maps every byte to the code point of its
\* value.
RefDecodeRules(u8) ==
    IF Len(u8) >= 2 /\ u8[1] = 254 /\ u8[2] = 255
    THEN Utf16Decode(SubSeq(u8, 3, Len(u8)), TRUE)
    ELSE IF Len(u8) >= 2 /\ u8[1] = 255 /\ u8[2] = 254
    THEN Utf16Decode(SubSeq(u8, 3, Len(u8)), FALSE)
    ELSE IF Utf8Decode(u8, TRUE).ok THEN Utf8Decode(u8, TRUE).units
    ELSE u8

\* C16: decodePdfStringBytes is total and applies its rules in order, first
\* match wins: a buffer starting FE FF is decoded as UTF-16BE without the
\* mark, else one starting FF FE as UTF-16LE without the mark, else a buffer
\* that is valid UTF-8 is decoded as UTF-8, else every byte is mapped to the
\* character with the same numeric code point; this holds for the empty
\* buffer, a one-byte buffer and a mark followed by an odd number of bytes.
C16_DecodeRules ==
    Decoded => pdf.text = RefDecodeRules(pdf.payload)

\* C17: on the PDF path the two failure kinds stay distinct: a decoded
\* token that parses as JSON but lacks cert or sig fails with the
\* missing-cert/sig error, and only a decoded token that is not JSON fails
\* with the not-valid-JSON error; the caller never receives the
\* not-valid-JSON error for text that is valid JSON.
C17_FailureKindsDistinct ==
    Decoded
    => LET Kinds(r) ==
               /\ (r.ok /\ BadShape(r.v)) => pdf.ret = MissingError
               /\ r.ok => pdf.ret # NotJsonError
               /\ ~r.ok => pdf.ret = NotJsonError
       IN Kinds(JSONParse(pdf.text))

\* The indexes where the byte sequence /CertPayload occurs.
RefMarkers(bytes) ==
    {k \in 0..(Len(bytes) - Len(Marker)) :
        \A j \in 1..Len(Marker) : At(bytes, k + j - 1) = Marker[j]}

\* The indexes after the first occurrence whose byte is not space, CR, LF,
\* tab or form-feed; the least of them is where the token starts.
RefAfterFirst(bytes) ==
    {j \in (Least(RefMarkers(bytes)) + Len(Marker))..(Len(bytes) - 1) :
        ~RefWhite(At(bytes, j))}

\* The call has failed before either parser examined a byte.
FailedUnparsed(errors) ==
    /\ pdf.pc = "done" /\ pdf.ret \in errors
    /\ pdf.kind = "none" /\ pdf.iters = 0 /\ pdf.payload = <<>>

\* The parser for the token at t has been started right after its first
\* byte.
ParserRuns(kind, t) ==
    /\ pdf.kind = kind /\ pdf.tok = t
    /\ pdf.pc \in {IF kind = "(" THEN "lit" ELSE "hex", "done"}
    /\ pdf.iters = 0 => pdf.st.i = t + 1

Located == pdf.pc \in {"lit", "hex", "done"}

\* C18: the token that extractPayloadFromPdfFile parses is the one starting
\* at the first byte that is not space, CR, LF, tab or form-feed after the
\* first occurrence of /CertPayload: with no occurrence the call fails with
\* a payload-not-found error; if that byte is '(' the literal parser runs,
\* if it is '<' the hex parser runs, and if it is any other byte or the
\* buffer ends first the call fails with a malformed-token error without
\* parsing anything; later occurrences of the marker are never used.
C18_FirstMarkerToken ==
    Located
    => IF RefMarkers(pdf.bytes) = {} THEN FailedUnparsed({NotFoundError})
       ELSE IF RefAfterFirst(pdf.bytes) = {}
       THEN FailedUnparsed({MalformedError, UnsupportedError})
       ELSE LET Start(t) ==
                    CASE At(pdf.bytes, t) = 40 -> ParserRuns("(", t)
                      [] At(pdf.bytes, t) = 60 -> ParserRuns("<", t)
                      [] OTHER -> FailedUnparsed({MalformedError, UnsupportedError})
            IN Start(Least(RefAfterFirst(pdf.bytes)))

\* The buffer with two markers: the literal after the first one, behind
\* white space, has been parsed, not the hex string after the second.
C18_Witness ==
    /\ pdf.pc = "done" /\ pdf.bytes = TwoMarkers
    /\ Cardinality(RefMarkers(pdf.bytes)) = 2
    /\ pdf.kind = "(" /\ pdf.tok = Len(PdfKey) + 2
    /\ pdf.payload = <<97>>

\* A step of one of the two loops: the parser stays in its loop.
InLoopStep == pdf.pc \in {"lit", "hex"} /\ pdf'.pc = pdf.pc

\* Every iteration moves the read index forward and stays inside the
\* buffer, and an iteration of the literal-string loop is entered with a
\* depth of at least 1.
LoopAdvances ==
    InLoopStep
    => /\ pdf'.st.i > pdf.st.i
       /\ pdf'.st.i <= Len(pdf.bytes)
       /\ pdf'.iters = pdf.iters + 1
       /\ pdf.pc = "lit" => pdf.st.depth >= 1

\* The iterations made so far are at most the bytes read so far, which are
\* at most the bytes that were left after the token's first byte; the depth
\* is never negative.
LoopBounded ==
    (Located /\ pdf.kind \in {"(", "<"})
    => /\ pdf.iters <= pdf.st.i - (pdf.tok + 1)
       /\ pdf.st.i <= Len(pdf.bytes)
       /\ pdf.iters <= Len(pdf.bytes) - (pdf.tok + 1)
       /\ pdf.kind = "(" => pdf.st.depth >= 0

\* C20: the token parsers always terminate: for every finite byte buffer,
\* every iteration of the literal-string loop and of the hex-string loop
\* strictly increases the read index i, each loop ends after at most as
\* many iterations as there are bytes left in the buffer, and during
\* literal parsing the depth is at least 1 whenever another byte is
\* examined (it never goes negative).
C20_ParsersTerminate == []LoopBounded /\ [][LoopAdvances]_vars

\* A literal-string loop has ended at the closing parenthesis after one
\* iteration for each byte that was left.
C20_Witness ==
    /\ pdf.pc = "done" /\ pdf.kind = "("
    /\ pdf.iters = Len(pdf.bytes) - (pdf.tok + 1)
    /\ pdf.iters >= 3
    /\ pdf.st.depth = 0

---------------------------------------------------------------------------
(* The flows under the assumption that every awaited promise settles:      *)
(* SpecLive.  A click or a load event need not ever come, so only the      *)
(* steps that settle an await are fair.                                    *)

\* The await flow f stands at settles and the flow runs to its next await
\* or to its end.
Settle(f) ==
    \/ HashKeyLoaded(f)
    \/ HashPayloadStr(f)
    \/ HashFetched(f)
    \/ HashText(f)
    \/ HashInflated(f)
    \/ FilesKeyLoaded(f)
    \/ FilesRead(f)
    \/ Verified(f)

\* Flow f stands at an await.  Each disjunct of Settle(f) is guarded by one
\* of these positions and leaves it, so this is ENABLED <<Settle(f)>>_vars.
Awaiting(f) ==
    flow[f].pc \in {"awaitKey", "awaitPayloadStr", "awaitFetch", "awaitText",
                    "awaitInflate", "awaitFile", "awaitVerify"}

\* Weak fairness of Settle(f): a flow does not stand at an await for ever
\* without the await settling.
Settles(f) == []<>(~Awaiting(f)) \/ []<><<Settle(f)>>_vars

SpecLive == Init /\ [][Next]_vars /\ \A f \in Flows : Settles(f)

InFlight(f) == flow[f].pc \notin {"idle", "done"}

\* A flow in flight has made its loading display only; a finished flow has
\* made one more, the final outcome.
OneOutcome ==
    \A f \in Flows :
        /\ InFlight(f) => Awaiting(f) /\ flow[f].shows = 1 /\ flow[f].shown.status
        /\ flow[f].pc = "done" => flow[f].shows = 2

\* The step that ends a flow writes its outcome to the result element, and
\* a finished flow changes only when it is invoked anew.
OutcomeStep ==
    \A f \in Flows :
        /\ (InFlight(f) /\ flow'[f].pc = "done")
           => /\ flow'[f].shows = flow[f].shows + 1
              /\ resultEl'.cls = IF flow'[f].shown.status THEN "ok" ELSE "err"
        /\ (flow[f].pc = "done" /\ flow'[f] # flow[f])
           => flow'[f].pc = "awaitKey" /\ flow'[f].shows = 1

\* C19: every started flow reaches exactly one final outcome: assuming each
\* awaited fetch, file read and crypto call eventually resolves or rejects,
\* every invocation of runHashFlow or runFilesFlow, after its initial
\* loading display, eventually writes exactly one final outcome to the
\* result element and performs no further stage afterwards; no rejection
\* escapes the flow uncaught.
C19_OneFinalOutcome ==
    /\ \A f \in Flows : InFlight(f) ~> (flow[f].pc = "done")
    /\ []OneOutcome
    /\ [][OutcomeStep]_vars

\* A flow whose fetch was rejected has ended in its catch clause, with the
\* error as its one final outcome.
C19_Witness ==
    \E f \in Flows :
        /\ flow[f].pc = "done" /\ flow[f].shows = 2
        /\ ~flow[f].shown.status
        /\ flow[f].shown.message = "Failed to fetch"

====
